---------------------------- MODULE Spec2Model ----------------------------
(***************************************************************************)
(* A model of the trust layer of the meeting-intelligence backend:         *)
(* evaluation aggregation, batch evaluation, candidate extraction,         *)
(* validation and provenance tracking.                                     *)
(*                                                                         *)
(* Conventions.                                                            *)
(*  - Scores on the 0..10 scale are integers in hundredths of a point      *)
(*    (7.25 is 725); fractions in [0,1] are integers in hundredths (0.85   *)
(*    is 85); source weights are integers in tenths (0.5 is 5).  round(x,2)*)
(*    is modelled on exact rationals by RoundHalfEven.                     *)
(*  - A Python dict whose key set varies is a function whose DOMAIN is the *)
(*    key set; an Optional argument is a record with a "given" flag.       *)
(*  - Every component of the repository has its own specification          *)
(*    (SpecAgg, SpecBatch, ...); the variables of the other components     *)
(*    stay at their initial value there.                                   *)
(***************************************************************************)
EXTENDS Integers, Sequences, FiniteSets, TLC

VARIABLES
    \* ---- EvaluationAggregator.aggregate_evaluations ----
    llm_eval,       \* argument llm_eval
    human_eval,     \* argument human_eval
    metrics_eval,   \* argument metrics_eval
    weights_arg,    \* argument weights
    schema,         \* self.schema['components']: the injected rubric
    clock,          \* datetime.utcnow()
    agg_calls,      \* the calls made so far: the local weights and the returned dict
    \* ---- EvaluationRunner.run_batch_evaluation ----
    job_ids,        \* argument job_ids
    parallel,       \* argument parallel
    load_fails,     \* the jobs for which storage.get_results raises
    eval_fails,     \* the jobs whose run_evaluation ends 'failed'
    b_pc,           \* position in run_batch_evaluation
    b_i,            \* index of the running loop
    tasks,          \* local tasks: the job of every coroutine created
    completed,      \* local completed: what asyncio.gather returned
    results,        \* local results: job id -> entry
    \* ---- MeetingExtractor.extract_structured_data ----
    segments,       \* argument segments
    has_structured, \* hasattr(model_adapter, 'extract_structured_data')
    llm_reply,      \* what happens to the call of each extractor
    ex_pc,          \* position in extract_structured_data
    ex_raw,         \* what each extractor returned
    ex_out,         \* the returned dict
    \* ExtractionValidator.validate_decisions / validate_actions / validate_risks
    val_type,       \* which of the three is called
    val_items,      \* argument: the extracted items
    val_segments,   \* argument source_segments
    val_embed,      \* embedding_model: "none", or what encode does
    val_pc,         \* position in the call
    val_out,        \* the returned list
    \* ProvenanceTracker
    pv_segments,    \* self.segments
    pv_embeddings,  \* self.segment_embeddings
    pv_model,       \* whether self.embedding_model is set
    pv_pc,          \* "tracked" once a track_* call has returned
    pv_record,      \* local provenance of track_*: what _find_provenance returned
    pv_out,         \* the item the track_* call returned
    \* ---- MeetingExtractor: confidence calibration ----
    cal_model,      \* whether self._embedding_model is set
    cal_summary,    \* whether self._summary_embedding is set
    cal_texts,      \* the texts of the segments of the run, in order
    cal_calls,      \* the calls of _calculate_semantic_confidence made so far
    \* ---- IntentTagger ----
    tg_model,       \* whether self.embedding_model is set
    tg_intents,     \* whether self._intent_embeddings is built
    tg_segments,    \* argument segments of tag_sentences
    tg_replies,     \* what the embedding model does on each sentence of the call
    tg_pc,          \* position in tag_sentences
    tg_tags,        \* the returned list
    \* ---- evaluation routes: trigger, background tasks, human review ----
    ev_exists,      \* whether storage.get_results finds the job
    ev_memory,      \* evaluation_results.get(job_id)
    ev_disk,        \* evaluation/evaluation_results.json of the job
    ev_reviews,     \* the components of human_reviews[job_id]
    ev_tasks,       \* the background tasks created and not finished, oldest first
    ev_requests,    \* the number of requests served
    ev_last,        \* the last run of run_evaluation: what happened, what it returned
    ev_reply,       \* what get_evaluation_status answered last
    \* ---- job routes: process_transcript, process_job, status, results ----
    jb_strategy,    \* argument model_strategy
    jb_pc,          \* position of process_job
    jb_status,      \* job_status.get(job_id)
    jb_results,     \* whether job_results holds the job
    jb_disk_status, \* status.json of the job
    jb_disk_results,\* whether full_report.json of the job exists
    jb_updates,     \* job_status[job_id] after each status update, oldest first
    jb_persist      \* whether every save_job_status so far has succeeded

aggVars == <<llm_eval, human_eval, metrics_eval, weights_arg, schema, clock, agg_calls>>

batchVars == <<job_ids, parallel, load_fails, eval_fails, b_pc, b_i, tasks, completed, results>>

extVars == <<segments, has_structured, llm_reply, ex_pc, ex_raw, ex_out>>

valVars == <<val_type, val_items, val_segments, val_embed, val_pc, val_out>>

provVars == <<pv_segments, pv_embeddings, pv_model, pv_pc, pv_record, pv_out>>

calVars == <<cal_model, cal_summary, cal_texts, cal_calls>>

tagVars == <<tg_model, tg_intents, tg_segments, tg_replies, tg_pc, tg_tags>>

evalVars ==
    <<ev_exists, ev_memory, ev_disk, ev_reviews, ev_tasks, ev_requests, ev_last, ev_reply>>

jobVars ==
    <<jb_strategy, jb_pc, jb_status, jb_results, jb_disk_status, jb_disk_results, jb_updates,
      jb_persist>>

vars ==
    <<aggVars, batchVars, extVars, valVars, provVars, calVars, tagVars, evalVars, jobVars>>

-----------------------------------------------------------------------------
(* Bounds of the model *)

NumComponents == 2
MaxCalls == 2
MaxClock == 1
MaxJobs == 3
MaxSegs == 2
MaxItems == 2

-----------------------------------------------------------------------------
(* Arithmetic helpers *)

Min(a, b) == IF a <= b THEN a ELSE b

Max(a, b) == IF a >= b THEN a ELSE b

Abs(a) == IF a >= 0 THEN a ELSE -a

\* round(n/d) to the nearest integer, ties to even: Python's round(x, 2) on a
\* value that is n/d hundredths.
RoundHalfEven(n, d) ==
    LET q == n \div d
        r == n % d
    IN  IF 2 * r < d THEN q
        ELSE IF 2 * r > d THEN q + 1
        ELSE IF q % 2 = 0 THEN q ELSE q + 1

RECURSIVE SumOver(_, _)
\* sum of f[x] over the finite set S
SumOver(S, f) ==
    IF S = {} THEN 0
    ELSE LET x == CHOOSE y \in S : TRUE
         IN  f[x] + SumOver(S \ {x}, f)

-----------------------------------------------------------------------------
(* EvaluationAggregator *)

NoScore == -1

Sources == {"llm", "human", "metrics"}

\* the component list of _calculate_confidence
CONF_COMPONENTS == <<"summary", "decisions", "action_items", "risks">>

\* the components that the inputs of the model may mention
InputComponents == {CONF_COMPONENTS[i] : i \in 1..Min(NumComponents, Len(CONF_COMPONENTS))}

\* criterion names, as sequences of the pieces between which str.split cuts
CritOwnerClarity == <<"owner", "_", "clarity">>
CritCompleteness == <<"completeness">>
CritRouge == <<"rouge">>
Criteria == {CritOwnerClarity, CritCompleteness, CritRouge}

\* rubrics that evaluation_schema.json may hold: component -> criterion -> weight,
\* in hundredths; the second one has no entry for "decisions"
SchemaChoices ==
    { [c \in {"summary", "decisions", "action_items", "risks"} |->
          IF c \in {"summary", "risks"}
          THEN (CritOwnerClarity :> 40) @@ (CritCompleteness :> 60)
          ELSE (CritOwnerClarity :> 50) @@ (CritCompleteness :> 30) @@ (CritRouge :> 20)],
      [c \in {"summary", "action_items", "risks"} |->
          (CritOwnerClarity :> 35) @@ (CritCompleteness :> 65)] }

AbsentEval == [present |-> FALSE, scores |-> [k \in Criteria |-> NoScore], overall_score |-> 0]

\* per-component records a judge may return
LlmRecChoices ==
    { AbsentEval,
      [present |-> TRUE,
       scores |-> (CritOwnerClarity :> 800) @@ (CritCompleteness :> 600) @@ (CritRouge :> NoScore),
       overall_score |-> 700],
      [present |-> TRUE,
       scores |-> (CritOwnerClarity :> 300) @@ (CritCompleteness :> NoScore) @@ (CritRouge :> NoScore),
       overall_score |-> 300] }

\* per-component records a human evaluation may hold
HumanRecChoices ==
    { AbsentEval,
      [present |-> TRUE,
       scores |-> (CritOwnerClarity :> 900) @@ (CritCompleteness :> 900) @@ (CritRouge :> NoScore),
       overall_score |-> 900],
      [present |-> TRUE,
       scores |-> (CritOwnerClarity :> NoScore) @@ (CritCompleteness :> 700) @@ (CritRouge :> NoScore),
       overall_score |-> 700] }

\* per-component metrics: completeness['overall'] and rouge['rougeL']['fmeasure'],
\* fractions in hundredths, NoScore when the key is absent
MetricsRecChoices ==
    { [present |-> FALSE, completeness |-> NoScore, rouge |-> NoScore],
      [present |-> TRUE, completeness |-> 50, rouge |-> 73],
      [present |-> TRUE, completeness |-> NoScore, rouge |-> NoScore] }

NoEval == [given |-> FALSE, evaluations |-> [c \in InputComponents |-> AbsentEval]]

LlmEvalChoices ==
    {NoEval} \cup {[given |-> TRUE, evaluations |-> e] : e \in [InputComponents -> LlmRecChoices]}

HumanEvalChoices ==
    {NoEval} \cup {[given |-> TRUE, evaluations |-> e] : e \in [InputComponents -> HumanRecChoices]}

MetricsEvalChoices == [InputComponents -> MetricsRecChoices]

\* the weights argument: None, or an explicit table (tenths)
WeightsChoices ==
    { [given |-> FALSE, w |-> [s \in Sources |-> 0]],
      [given |-> TRUE, w |-> ("llm" :> 6) @@ ("human" :> 3) @@ ("metrics" :> 1)],
      [given |-> TRUE, w |-> ("llm" :> 0) @@ ("human" :> 5) @@ ("metrics" :> 0)] }

\* truthiness of the arguments (`if llm_eval`, `if metrics_eval`)
Truthy(ev) == ev.given

MetricsTruthy(m) == \E c \in DOMAIN m : m[c].present

\* lines 28-42: the local `weights` after the two adjustments
DefaultWeights == ("llm" :> 5) @@ ("human" :> 3) @@ ("metrics" :> 2)

HumanWeights == ("llm" :> 4) @@ ("human" :> 4) @@ ("metrics" :> 2)

\* a variant of EffectiveWeights in which the renormalisation for a human evaluation is lost
EffectiveWeights_NoRenormalise(warg, human) ==
    IF warg.given THEN warg.w ELSE DefaultWeights

EffectiveWeights(warg, human) ==
    IF Truthy(human) THEN HumanWeights
    ELSE IF warg.given THEN warg.w
    ELSE DefaultWeights

\* f'{source}_{criterion}'
ScoreKey(source, criterion) == <<source, "_">> \o criterion

\* score_key.split('_', 1): cut at the first underscore; one part when there is none
SplitKey(key) ==
    LET us == {i \in 1..Len(key) : key[i] = "_"}
    IN  IF us = {} THEN <<key>>
        ELSE LET i == CHOOSE j \in us : \A k \in us : j <= k
             IN  <<SubSeq(key, 1, i - 1), SubSeq(key, i + 1, Len(key))>>

\* lines 52-59: the components named by any source
AllComponents(llm, human, metrics) ==
    (IF Truthy(llm) THEN {c \in DOMAIN llm.evaluations : llm.evaluations[c].present} ELSE {})
    \cup (IF Truthy(human) THEN {c \in DOMAIN human.evaluations : human.evaluations[c].present} ELSE {})
    \cup (IF MetricsTruthy(metrics) THEN {c \in DOMAIN metrics : metrics[c].present} ELSE {})

\* a variant of ComponentScores in which the metrics are not brought to the 0..10 scale
ComponentScores_Unscaled(llm, human, metrics, c) ==
    LET llmE == IF Truthy(llm) /\ llm.evaluations[c].present
                THEN {<<ScoreKey("llm", k), llm.evaluations[c].scores[k]>> :
                        k \in {x \in Criteria : llm.evaluations[c].scores[x] # NoScore}}
                ELSE {}
        humE == IF Truthy(human) /\ human.evaluations[c].present
                THEN {<<ScoreKey("human", k), human.evaluations[c].scores[k]>> :
                        k \in {x \in Criteria : human.evaluations[c].scores[x] # NoScore}}
                ELSE {}
        metE == IF MetricsTruthy(metrics) /\ metrics[c].present
                THEN (IF metrics[c].completeness # NoScore
                      THEN {<<ScoreKey("metrics", CritCompleteness), metrics[c].completeness>>}
                      ELSE {})
                     \cup
                     (IF metrics[c].rouge # NoScore
                      THEN {<<ScoreKey("metrics", CritRouge), metrics[c].rouge>>}
                      ELSE {})
                ELSE {}
        entries == llmE \cup humE \cup metE
    IN  [key \in {e[1] : e \in entries} |-> (CHOOSE e \in entries : e[1] = key)[2]]

\* lines 63-88: component_scores, the raw scores keyed by source and criterion
ComponentScores(llm, human, metrics, c) ==
    LET llmE == IF Truthy(llm) /\ llm.evaluations[c].present
                THEN {<<ScoreKey("llm", k), llm.evaluations[c].scores[k]>> :
                        k \in {x \in Criteria : llm.evaluations[c].scores[x] # NoScore}}
                ELSE {}
        humE == IF Truthy(human) /\ human.evaluations[c].present
                THEN {<<ScoreKey("human", k), human.evaluations[c].scores[k]>> :
                        k \in {x \in Criteria : human.evaluations[c].scores[x] # NoScore}}
                ELSE {}
        metE == IF MetricsTruthy(metrics) /\ metrics[c].present
                THEN (IF metrics[c].completeness # NoScore
                      THEN {<<ScoreKey("metrics", CritCompleteness), metrics[c].completeness * 10>>}
                      ELSE {})
                     \cup
                     (IF metrics[c].rouge # NoScore
                      THEN {<<ScoreKey("metrics", CritRouge), metrics[c].rouge * 10>>}
                      ELSE {})
                ELSE {}
        entries == llmE \cup humE \cup metE
    IN  [key \in {e[1] : e \in entries} |-> (CHOOSE e \in entries : e[1] = key)[2]]

\* lines 139-149: criteria_scores, the raw scores grouped by criterion
CriteriaScores(raw) ==
    LET keys == {k \in DOMAIN raw : Len(SplitKey(k)) = 2}
        crits == {SplitKey(k)[2] : k \in keys}
    IN  [cr \in crits |->
            LET ks == {k \in keys : SplitKey(k)[2] = cr}
            IN  [src \in {SplitKey(k)[1] : k \in ks} |->
                    raw[CHOOSE k \in ks : SplitKey(k)[1] = src]]]

\* the weight of a source key (`if source in weights`)
WeightOf(weights, src) ==
    IF Len(src) = 1 /\ src[1] \in DOMAIN weights THEN weights[src[1]] ELSE 0

\* a variant of FinalScores in which the weights of all sources are in the denominator
FinalScores_AllSourcesDenominator(raw, weights) ==
    LET cs == CriteriaScores(raw)
        wsum == SumOver(DOMAIN weights, weights)
        wscore(cr) == SumOver(DOMAIN cs[cr], [s \in DOMAIN cs[cr] |-> cs[cr][s] * WeightOf(weights, s)])
    IN  [cr \in {x \in DOMAIN cs : wsum > 0} |-> RoundHalfEven(wscore(cr), wsum)]

\* lines 151-163: the weighted score of every criterion with a positive weight sum
FinalScores(raw, weights) ==
    LET cs == CriteriaScores(raw)
        wsum(cr) == SumOver(DOMAIN cs[cr], [s \in DOMAIN cs[cr] |-> WeightOf(weights, s)])
        wscore(cr) == SumOver(DOMAIN cs[cr], [s \in DOMAIN cs[cr] |-> cs[cr][s] * WeightOf(weights, s)])
    IN  [cr \in {x \in DOMAIN cs : wsum(x) > 0} |-> RoundHalfEven(wscore(cr), wsum(cr))]

\* a variant of OverallScore in which the sum is divided by the total rubric
\* weight of the criteria that have a score
OverallScore_Normalised(final, c) ==
    IF c \in DOMAIN schema
    THEN LET used == {cr \in DOMAIN final : cr \in DOMAIN schema[c]}
             wsum == SumOver(used, [cr \in used |-> schema[c][cr]])
         IN  IF wsum = 0 THEN 0
             ELSE RoundHalfEven(SumOver(used, [cr \in used |-> final[cr] * schema[c][cr]]), wsum)
    ELSE 0

\* lines 165-176: overall_score from the rubric weights of the component
OverallScore(final, c) ==
    IF c \in DOMAIN schema
    THEN LET used == {cr \in DOMAIN final : cr \in DOMAIN schema[c]}
         IN  RoundHalfEven(SumOver(used, [cr \in used |-> final[cr] * schema[c][cr]]), 100)
    ELSE 0

\* _calculate_final_scores
CalculateFinalScores(raw, weights, c) ==
    LET final == FinalScores(raw, weights)
    IN  [scores |-> final, overall_score |-> OverallScore(final, c)]

\* a variant of CalculateConfidence in which the thresholds are strict
CalculateConfidence_Strict(llm, human, metrics) ==
    IF ~Truthy(llm) \/ ~Truthy(human) THEN "low"
    ELSE LET shared == {c \in DOMAIN llm.evaluations \cap DOMAIN human.evaluations :
                            llm.evaluations[c].present /\ human.evaluations[c].present}
             total == SumOver(shared, [c \in shared |->
                          1000 - Abs(llm.evaluations[c].overall_score
                                     - human.evaluations[c].overall_score)])
             n == Cardinality(shared)
         IN  IF n = 0 THEN "low"
             ELSE IF total > 800 * n THEN "high"
             ELSE IF total > 600 * n THEN "medium"
             ELSE "low"

\* _calculate_confidence
CalculateConfidence(llm, human, metrics) ==
    IF ~Truthy(llm) \/ ~Truthy(human) THEN "low"
    ELSE LET shared == {i \in 1..Len(CONF_COMPONENTS) :
                            /\ CONF_COMPONENTS[i] \in DOMAIN llm.evaluations
                            /\ llm.evaluations[CONF_COMPONENTS[i]].present
                            /\ CONF_COMPONENTS[i] \in DOMAIN human.evaluations
                            /\ human.evaluations[CONF_COMPONENTS[i]].present}
             \* agreement = 1 - diff/10, in thousandths
             agreement == [i \in shared |->
                              1000 - Abs(llm.evaluations[CONF_COMPONENTS[i]].overall_score
                                         - human.evaluations[CONF_COMPONENTS[i]].overall_score)]
             total == SumOver(shared, agreement)
             n == Cardinality(shared)
         IN  IF n = 0 THEN "low"
             ELSE IF total >= 800 * n THEN "high"
             ELSE IF total >= 600 * n THEN "medium"
             ELSE "low"

\* a variant of TrackSources in which the list is kept between calls and appended to
TrackSources_Kept(llm, human, metrics) ==
    (IF agg_calls = <<>> THEN <<>> ELSE agg_calls[Len(agg_calls)].result.sources)
    \o (IF Truthy(llm) THEN <<"llm">> ELSE <<>>)
    \o (IF Truthy(human) THEN <<"human">> ELSE <<>>)
    \o (IF MetricsTruthy(metrics) THEN <<"metrics">> ELSE <<>>)

\* lines 122-128: the sources list
TrackSources(llm, human, metrics) ==
    (IF Truthy(llm) THEN <<"llm">> ELSE <<>>)
    \o (IF Truthy(human) THEN <<"human">> ELSE <<>>)
    \o (IF MetricsTruthy(metrics) THEN <<"metrics">> ELSE <<>>)

\* lines 62-103: aggregated['components']
AggregateComponents(llm, human, metrics, weights) ==
    LET present == {c \in AllComponents(llm, human, metrics) :
                        DOMAIN ComponentScores(llm, human, metrics, c) # {}}
    IN  [c \in present |->
            LET raw == ComponentScores(llm, human, metrics, c)
                fs == CalculateFinalScores(raw, weights, c)
            IN  [scores |-> fs.scores, overall_score |-> fs.overall_score, raw_scores |-> raw]]

\* lines 105-113: aggregated['aggregate_score']
AggregateScore(components) ==
    IF DOMAIN components # {}
    THEN RoundHalfEven(SumOver(DOMAIN components,
                               [c \in DOMAIN components |-> components[c].overall_score]),
                       Cardinality(DOMAIN components))
    ELSE 0

\* aggregate_evaluations: the returned dict (explanations, which are copied
\* through unchanged, are left out)
AggregateEvaluations(llm, human, metrics, warg, now) ==
    LET weights == EffectiveWeights(warg, human)
        components == AggregateComponents(llm, human, metrics, weights)
    IN  [components |-> components,
         aggregate_score |-> AggregateScore(components),
         sources |-> TrackSources(llm, human, metrics),
         confidence |-> CalculateConfidence(llm, human, metrics),
         timestamp |-> now]

InitAggInputs ==
    /\ llm_eval \in LlmEvalChoices
    /\ human_eval \in HumanEvalChoices
    /\ metrics_eval \in MetricsEvalChoices
    /\ weights_arg \in WeightsChoices
    /\ schema \in SchemaChoices
    /\ clock = 0
    /\ agg_calls = <<>>

\* the aggregator at rest, in the specifications of the other components
IdleAgg ==
    /\ llm_eval = NoEval
    /\ human_eval = NoEval
    /\ metrics_eval = [c \in InputComponents |-> [present |-> FALSE, completeness |-> NoScore, rouge |-> NoScore]]
    /\ weights_arg = [given |-> FALSE, w |-> [s \in Sources |-> 0]]
    /\ schema = [c \in {} |-> 0]
    /\ clock = 0
    /\ agg_calls = <<>>

\* one call of aggregate_evaluations on the current arguments; the time it
\* reads is any time not before the last one read
Aggregate ==
    /\ Len(agg_calls) < MaxCalls
    /\ \E now \in clock..MaxClock :
        /\ clock' = now
        /\ agg_calls' = Append(agg_calls,
                [weights |-> EffectiveWeights(weights_arg, human_eval),
                 result |-> AggregateEvaluations(llm_eval, human_eval, metrics_eval,
                                                 weights_arg, now)])
    /\ UNCHANGED <<llm_eval, human_eval, metrics_eval, weights_arg, schema>>
    /\ UNCHANGED <<batchVars, extVars, valVars, provVars, calVars, tagVars, evalVars, jobVars>>

-----------------------------------------------------------------------------
(* EvaluationRunner.run_batch_evaluation *)

JobIds == 1..MaxJobs

\* job id of an entry that has no 'job_id' key
NoJob == 0

\* dict assignment d[k] = v
Put(d, k, v) == [x \in DOMAIN d \cup {k} |-> IF x = k THEN v ELSE d[x]]

\* the lists of distinct job ids
JobLists ==
    UNION {{q \in [1..n -> JobIds] : \A a, b \in 1..n : a # b => q[a] # q[b]} : n \in 1..MaxJobs}

\* what run_evaluation returns for a job: it catches every exception itself
RunEvaluationResult(id) ==
    [job_id |-> id, status |-> IF id \in eval_fails THEN "failed" ELSE "completed"]

\* {'status': 'failed', 'error': str(e)}
FailedEntry == [job_id |-> NoJob, status |-> "failed"]

InitBatchInputs ==
    /\ job_ids \in JobLists
    /\ parallel \in BOOLEAN
    /\ load_fails \in SUBSET JobIds
    /\ eval_fails \in SUBSET JobIds
    /\ b_pc = "loop"
    /\ b_i = 1
    /\ tasks = <<>>
    /\ completed = <<>>
    /\ results = [j \in {} |-> FailedEntry]

IdleBatch ==
    /\ job_ids = <<>>
    /\ parallel = FALSE
    /\ load_fails = {}
    /\ eval_fails = {}
    /\ b_pc = "idle"
    /\ b_i = 1
    /\ tasks = <<>>
    /\ completed = <<>>
    /\ results = [j \in {} |-> FailedEntry]

\* lines 289-303: one iteration of the loop that creates the coroutines
BatchCreateTask ==
    /\ b_pc = "loop" /\ parallel /\ b_i <= Len(job_ids)
    /\ IF job_ids[b_i] \in load_fails
       THEN /\ results' = Put(results, job_ids[b_i], FailedEntry)
            /\ tasks' = tasks
       ELSE /\ tasks' = Append(tasks, job_ids[b_i])
            /\ results' = results
    /\ b_i' = b_i + 1
    /\ UNCHANGED <<job_ids, parallel, load_fails, eval_fails, b_pc, completed>>
    /\ UNCHANGED <<aggVars, extVars, valVars, provVars, calVars, tagVars, evalVars, jobVars>>

\* lines 306-307: asyncio.gather returns the results in the order of tasks
BatchGather ==
    /\ b_pc = "loop" /\ parallel /\ b_i > Len(job_ids)
    /\ IF tasks # <<>>
       THEN /\ completed' = [k \in 1..Len(tasks) |-> RunEvaluationResult(tasks[k])]
            /\ b_pc' = "zip"
       ELSE /\ completed' = completed
            /\ b_pc' = "done"
    /\ b_i' = 1
    /\ UNCHANGED <<job_ids, parallel, load_fails, eval_fails, tasks, results>>
    /\ UNCHANGED <<aggVars, extVars, valVars, provVars, calVars, tagVars, evalVars, jobVars>>

\* lines 308-312: one iteration of `for job_id, result in zip(job_ids, completed)`
BatchZip ==
    /\ b_pc = "zip"
    /\ IF b_i <= Min(Len(job_ids), Len(completed))
       THEN /\ results' = Put(results, job_ids[b_i], completed[b_i])
            /\ b_i' = b_i + 1
            /\ b_pc' = b_pc
       ELSE /\ b_pc' = "done"
            /\ UNCHANGED <<results, b_i>>
    /\ UNCHANGED <<job_ids, parallel, load_fails, eval_fails, tasks, completed>>
    /\ UNCHANGED <<aggVars, extVars, valVars, provVars, calVars, tagVars, evalVars, jobVars>>

\* lines 315-327: one iteration of the sequential loop
BatchSequential ==
    /\ b_pc = "loop" /\ ~parallel
    /\ IF b_i <= Len(job_ids)
       THEN /\ results' = Put(results, job_ids[b_i],
                              IF job_ids[b_i] \in load_fails THEN FailedEntry
                              ELSE RunEvaluationResult(job_ids[b_i]))
            /\ b_i' = b_i + 1
            /\ b_pc' = b_pc
       ELSE /\ b_pc' = "done"
            /\ UNCHANGED <<results, b_i>>
    /\ UNCHANGED <<job_ids, parallel, load_fails, eval_fails, tasks, completed>>
    /\ UNCHANGED <<aggVars, extVars, valVars, provVars, calVars, tagVars, evalVars, jobVars>>

-----------------------------------------------------------------------------
(* Transcript text                                                         *)
(*                                                                         *)
(* A text is a sequence of tokens: words and punctuation marks.  It stands *)
(* for the string in which "," "." "!" "?" ":" follow the previous token   *)
(* without a space and every other token follows a single space.  The      *)
(* regular expressions and substring tests of the source are applied token *)
(* by token; a word that holds a searched word as a proper substring is    *)
(* listed in SubstringPairs.                                               *)

NoSpeaker == ""

\* None where a text is expected
NoText == <<>>

Terminators == {".", "!", "?"}

NoSpaceBefore == Terminators \cup {",", ":"}

\* str.lower: the words of the model that are not lower case already
Lower(t) ==
    IF t = "Sarah" THEN "sarah" ELSE IF t = "Marcus" THEN "marcus"
    ELSE IF t = "Friday" THEN "friday" ELSE IF t = "Q3" THEN "q3"
    ELSE IF t = "I" THEN "i" ELSE IF t = "We" THEN "we"
    ELSE IF t = "Mars" THEN "mars" ELSE IF t = "Priya" THEN "priya" ELSE t

LowerText(ts) == [i \in DOMAIN ts |-> Lower(ts[i])]

\* str.title: the words of the model an owner can be
Title(t) ==
    IF t = "sarah" THEN "Sarah" ELSE IF t = "marcus" THEN "Marcus"
    ELSE IF t = "we" THEN "We" ELSE IF t = "report" THEN "Report" ELSE t

\* <<k, w>>: the word w holds the searched word k as a proper substring
SubstringPairs == {<<"date", "update">>, <<"will", "willing">>}

\* len() of the string a text stands for
RECURSIVE CharLenTo(_, _)
CharLenTo(ts, n) ==
    IF n = 0 THEN 0
    ELSE CharLenTo(ts, n - 1) + Len(ts[n])
           + (IF n > 1 /\ ts[n] \notin NoSpaceBefore THEN 1 ELSE 0)

CharLen(ts) == CharLenTo(ts, Len(ts))

\* the phrase ph (lower case) stands at position i of ts, whatever the case
PhraseAt(ts, i, ph) ==
    /\ i >= 1
    /\ i + Len(ph) - 1 <= Len(ts)
    /\ \A j \in 1..Len(ph) : Lower(ts[i + j - 1]) = ph[j]

\* any(kw in text.lower() for kw in kws)
HasAnyKeyword(ts, kws) ==
    \E kw \in kws : \E i \in 1..Len(ts) :
        \/ PhraseAt(ts, i, kw)
        \/ Len(kw) = 1 /\ <<kw[1], Lower(ts[i])>> \in SubstringPairs

\* [A-Za-z]+
IsAlphaWord(t) == t \notin NoSpaceBefore \cup {"-"}

\* ([^.!?]+) can start at position i after \s+
RestStartsAt(ts, i) == i >= 1 /\ i <= Len(ts) /\ ts[i] \notin NoSpaceBefore

\* the last position of the greedy ([^.!?]+) that starts at position i
RestEnd(ts, i) ==
    CHOOSE e \in i..Len(ts) :
        /\ \A j \in i..e : ts[j] \notin Terminators
        /\ e = Len(ts) \/ ts[e + 1] \in Terminators

\* str.rstrip('.,')
RStrip(ts) ==
    LET keep == {e \in 1..Len(ts) : ts[e] \notin {".", ","}}
    IN IF keep = {} THEN <<>> ELSE SubSeq(ts, 1, CHOOSE e \in keep : \A o \in keep : o <= e)

NoMatch == [found |-> FALSE, start |-> 0, owner |-> "", rest |-> 0, stop |-> 0]

\* The matches of a template  PRE [WORD] SEP MID ([^.!?]+)  that start at
\* position i: pre, sep and mid are sets of phrases, word tells whether one
\* word is captured after PRE.  An optional part is a set that holds <<>>.
TemplateAt(ts, i, pre, word, sep, mid) ==
    LET RestOf(x) == i + Len(x[1]) + (IF word THEN 1 ELSE 0) + Len(x[2]) + Len(x[3])
        Fits(x) ==
            LET w == i + Len(x[1])
                a == w + (IF word THEN 1 ELSE 0)
                b == a + Len(x[2])
            IN /\ PhraseAt(ts, i, x[1])
               /\ word => (w <= Len(ts) /\ IsAlphaWord(ts[w]))
               /\ PhraseAt(ts, a, x[2])
               /\ PhraseAt(ts, b, x[3])
               /\ RestStartsAt(ts, RestOf(x))
    IN {[found |-> TRUE, start |-> i,
         owner |-> IF word THEN ts[i + Len(x[1])] ELSE "",
         rest |-> RestOf(x),
         stop |-> RestEnd(ts, RestOf(x))] : x \in {y \in pre \X sep \X mid : Fits(y)}}

\* of the matches at one position the regex engine takes the one whose
\* optional parts are present: the one whose rest starts last
GreedyAt(ts, i, pre, word, sep, mid) ==
    LET M == TemplateAt(ts, i, pre, word, sep, mid)
    IN CHOOSE m \in M : \A o \in M : o.rest <= m.rest

\* re.search of the template: the leftmost match
TemplateSearch(ts, pre, word, sep, mid) ==
    LET P == {i \in 1..Len(ts) : TemplateAt(ts, i, pre, word, sep, mid) # {}}
    IN IF P = {} THEN NoMatch
       ELSE GreedyAt(ts, CHOOSE i \in P : \A j \in P : i <= j, pre, word, sep, mid)

\* re.finditer of the template: the successive matches, each searched from
\* the end of the one before.  A match runs to the end of its sentence, so
\* a position starts a match when the template fits there and no fit
\* before it runs over it.
TemplateFindAll(ts, pre, word, sep, mid) ==
    LET Fits(i) == TemplateAt(ts, i, pre, word, sep, mid) # {}
        Starts == {i \in 1..Len(ts) :
                      /\ Fits(i)
                      /\ \A j \in 1..(i - 1) :
                            Fits(j) => GreedyAt(ts, j, pre, word, sep, mid).stop < i}
        Nth(n) == CHOOSE i \in Starts : Cardinality({j \in Starts : j <= i}) = n
    IN [n \in 1..Cardinality(Starts) |-> GreedyAt(ts, Nth(n), pre, word, sep, mid)]

\* the last group of a match
GroupRest(ts, m) == SubSeq(ts, m.rest, m.stop)

-----------------------------------------------------------------------------
(* DecisionExtractor *)

PATTERN_CONFIDENCE == 85

DecisionKeywords ==
    {<<"decided">>, <<"decision">>, <<"agreed">>, <<"approved">>, <<"concluded">>,
     <<"finalized">>, <<"settled">>, <<"voted">>, <<"unanimously">>, <<"let's", "make">>,
     <<"we", "will">>, <<"we're", "going", "with">>, <<"push", "the">>,
     <<"change", "the">>, <<"move", "to">>}

\* the templates of decision_patterns that end in ([^.!?]+), in their order
DecisionTemplates ==
    <<[pre |-> {<<"decided">>, <<"agreed">>, <<"approved">>, <<"concluded">>,
                <<"finalized">>, <<"settled">>},
       mid |-> {<<"to">>, <<"that">>, <<"on">>}],
      [pre |-> {<<"we">>, <<"the", "team">>, <<"everyone">>},
       mid |-> {<<"will">>, <<"are", "going", "to">>}],
      [pre |-> {<<"let's">>, <<"we're">>},
       mid |-> {<<"make">>, <<"go", "with">>, <<"push">>, <<"change">>, <<"move">>}]>>

\* the fourth of decision_patterns: (push|change|move) (the|our) ([^.!?]+) (to|from)
MoveTemplateSearch(ts) ==
    LET Ends(i) == {k \in (i + 3)..Len(ts) :
                        /\ Lower(ts[k]) \in {"to", "from"}
                        /\ \A j \in (i + 2)..k : ts[j] \notin Terminators}
        P == {i \in 1..Len(ts) :
                /\ \E h \in {<<"push">>, <<"change">>, <<"move">>} : PhraseAt(ts, i, h)
                /\ \E d \in {<<"the">>, <<"our">>} : PhraseAt(ts, i + 1, d)
                /\ RestStartsAt(ts, i + 2)
                /\ Ends(i) # {}}
    IN IF P = {} THEN NoMatch
       ELSE LET i == CHOOSE a \in P : \A b \in P : a <= b
            IN [found |-> TRUE, start |-> i, owner |-> "", rest |-> i + 2,
                stop |-> CHOOSE k \in Ends(i) : \A o \in Ends(i) : o <= k]

\* core_decision: group 0 of the first of decision_patterns that matches,
\* or the whole decision text
CoreDecision(ts) ==
    LET M(k) == TemplateSearch(ts, DecisionTemplates[k].pre, FALSE, {<<>>},
                               DecisionTemplates[k].mid)
    IN IF M(1).found THEN SubSeq(ts, M(1).start, M(1).stop)
       ELSE IF M(2).found THEN SubSeq(ts, M(2).start, M(2).stop)
       ELSE IF M(3).found THEN SubSeq(ts, M(3).start, M(3).stop)
       ELSE IF MoveTemplateSearch(ts).found THEN SubSeq(ts, MoveTemplateSearch(ts).start, MoveTemplateSearch(ts).stop)
       ELSE ts

Rationale(ts) ==
    LET m == TemplateSearch(ts, {<<"because">>, <<"since">>, <<"due", "to">>,
                                 <<"given", "that">>, <<"to", "provide">>,
                                 <<"to", "ensure">>, <<"to", "give">>},
                            FALSE, {<<>>}, {<<>>})
    IN IF m.found THEN GroupRest(ts, m) ELSE NoText

\* participants: the speaker, then for a group decision the other speakers
\* of the context in their order, five at most
RECURSIVE AddSpeakers(_, _, _)
AddSpeakers(participants, ctx, k) ==
    IF k > Len(ctx) THEN participants
    ELSE IF ctx[k].speaker # NoSpeaker
            /\ \A j \in 1..Len(participants) : participants[j] # ctx[k].speaker
         THEN AddSpeakers(Append(participants, ctx[k].speaker), ctx, k + 1)
         ELSE AddSpeakers(participants, ctx, k + 1)

Participants(seg, ctx, ts) ==
    LET own == IF seg.speaker # NoSpeaker THEN <<seg.speaker>> ELSE <<>>
        all == IF \E i \in 1..Len(ts) :
                    Lower(ts[i]) \in {"we", "team", "everyone", "unanimously", "all"}
               THEN LET p == AddSpeakers(own, ctx, 1)
                    IN SubSeq(p, 1, IF Len(p) < 5 THEN Len(p) ELSE 5)
               ELSE own
    IN IF all # <<>> THEN all ELSE <<"Meeting participants">>

\* the decision text: the segment and the segments after it, two at most,
\* that continue it; seg_index is the index of the segment in all_segments
\* (from 0) and is used to index the context
DecisionText(seg, ctx, seg_index) ==
    LET Continues(nxt) == \/ nxt.speaker = seg.speaker
                          \/ HasAnyKeyword(nxt.text, {<<"to">>, <<"will">>, <<"with">>, <<"for">>})
        room == Len(ctx) - seg_index
        one == room >= 2 /\ Continues(ctx[seg_index + 2])
        two == one /\ room >= 3 /\ Continues(ctx[seg_index + 3])
    IN seg.text \o (IF one THEN ctx[seg_index + 2].text ELSE <<>>)
                \o (IF two THEN ctx[seg_index + 3].text ELSE <<>>)

ExtractDecisionFromContext(seg, ctx, seg_index) ==
    LET ts == DecisionText(seg, ctx, seg_index)
    IN [decision |-> CoreDecision(ts),
        rationale |-> Rationale(ts),
        participants |-> Participants(seg, ctx, ts),
        confidence |-> PATTERN_CONFIDENCE,
        has_confidence |-> TRUE]

\* DecisionExtractor._extract_with_patterns from segment i (from 1) on; the
\* context of a segment is the two segments before it and the two after it
RECURSIVE DecisionPatternPath(_, _)
DecisionPatternPath(segs, i) ==
    IF i > Len(segs) THEN <<>>
    ELSE (IF HasAnyKeyword(segs[i].text, DecisionKeywords)
          THEN <<ExtractDecisionFromContext(segs[i],
                    SubSeq(segs, Max(1, i - 2), Min(Len(segs), i + 2)), i - 1)>>
          ELSE <<>>) \o DecisionPatternPath(segs, i + 1)

-----------------------------------------------------------------------------
(* ActionExtractor *)

\* action_patterns, in their order
ActionTemplates ==
    <<[type |-> "direct_request", pre |-> {<<>>}, word |-> TRUE, sep |-> {<<>>, <<",">>},
       mid |-> {<<"can", "you">>, <<"could", "you">>, <<"please">>, <<"will", "you">>}],
      [type |-> "will_pattern", pre |-> {<<>>}, word |-> TRUE, sep |-> {<<>>},
       mid |-> {<<"will">>, <<"is", "going", "to">>, <<"needs", "to">>, <<"should">>,
                <<"must">>}],
      [type |-> "first_person", pre |-> {<<"i'll">>, <<"i", "will">>, <<"i'm", "going", "to">>},
       word |-> FALSE, sep |-> {<<>>}, mid |-> {<<>>}],
      [type |-> "delegation", pre |-> {<<"let's", "have">>, <<"ask">>, <<"get">>},
       word |-> TRUE, sep |-> {<<>>}, mid |-> {<<>>, <<"to">>}],
      [type |-> "dash_pattern", pre |-> {<<>>}, word |-> TRUE, sep |-> {<<"-">>},
       mid |-> {<<>>}],
      [type |-> "assigned_pattern", pre |-> {<<"assigned", "to">>}, word |-> TRUE,
       sep |-> {<<":">>}, mid |-> {<<>>}]>>

MIN_ACTION_LEN == 10

\* _extract_due_date; the patterns that need a digit or "deadline:" or "due:"
\* match no text of the model
ExtractDueDate(ts) ==
    LET eod == {i \in 1..Len(ts) :
                    \/ PhraseAt(ts, i, <<"by", "end", "of", "day", "tomorrow">>)
                    \/ PhraseAt(ts, i, <<"by", "eod", "tomorrow">>)}
        DayWords == {"monday", "tuesday", "wednesday", "thursday", "friday", "saturday",
                     "sunday", "today"}
        day == {i \in 1..Len(ts) - 1 : PhraseAt(ts, i, <<"by">>) /\ Lower(ts[i + 1]) \in DayWords}
        rel == {i \in 1..Len(ts) :
                    \E p \in {<<"next", "week">>, <<"this", "week">>, <<"tomorrow">>, <<"today">>} :
                        PhraseAt(ts, i, <<"by">> \o p)}
        First(S) == CHOOSE i \in S : \A j \in S : i <= j
    IN IF eod # {} THEN <<"end", "of", "day", "tomorrow">>
       ELSE IF day # {} THEN <<ts[First(day) + 1]>>
       ELSE IF rel # {}
            THEN IF Lower(ts[First(rel) + 1]) \in {"next", "this"}
                 THEN SubSeq(ts, First(rel) + 1, First(rel) + 2)
                 ELSE <<ts[First(rel) + 1]>>
       ELSE NoText

DeterminePriority(ts) ==
    IF HasAnyKeyword(ts, {<<"urgent">>, <<"critical">>, <<"asap">>, <<"immediately">>,
                          <<"priority">>, <<"important">>, <<"blocker">>, <<"blocking">>,
                          <<"must">>})
    THEN "high"
    ELSE IF HasAnyKeyword(ts, {<<"when", "possible">>, <<"nice", "to", "have">>,
                               <<"optional">>, <<"low", "priority">>})
    THEN "low"
    ELSE "medium"

CleanOwnerName(owner, speaker) ==
    IF owner = "" THEN "Unclear"
    ELSE IF Lower(owner) \in {"i", "i'll", "i'm"} THEN speaker
    ELSE IF Lower(owner) = "you" THEN "Unclear"
    ELSE Title(owner)

\* the matches of one template in one segment, in their order, as candidates
TemplateCandidates(seg, t) ==
    LET ms == TemplateFindAll(seg.text, t.pre, t.word, t.sep, t.mid)
        speaker == IF seg.speaker # NoSpeaker THEN seg.speaker ELSE "Unknown"
    IN [k \in 1..Len(ms) |->
            [owner |-> IF t.type = "first_person" THEN speaker ELSE ms[k].owner,
             action_text |-> RStrip(GroupRest(seg.text, ms[k])),
             speaker |-> speaker,
             text |-> seg.text]]

\* a variant that leaves the templates of a segment at the first one that
\* matches
RECURSIVE ActionCandidates_FirstTemplate(_, _)
ActionCandidates_FirstTemplate(segs, n) ==
    IF n >= Len(segs) * Len(ActionTemplates) THEN <<>>
    ELSE LET seg == segs[(n \div Len(ActionTemplates)) + 1]
             t == (n % Len(ActionTemplates)) + 1
         IN (IF \E u \in 1..(t - 1) : Len(TemplateCandidates(seg, ActionTemplates[u])) > 0
             THEN <<>>
             ELSE TemplateCandidates(seg, ActionTemplates[t]))
              \o ActionCandidates_FirstTemplate(segs, n + 1)

\* the candidates in the order of the loops: segment after segment, and in
\* a segment template after template; n counts the (segment, template)
\* pairs from 0
RECURSIVE ActionCandidates(_, _)
ActionCandidates(segs, n) ==
    IF n >= Len(segs) * Len(ActionTemplates) THEN <<>>
    ELSE TemplateCandidates(segs[(n \div Len(ActionTemplates)) + 1],
                            ActionTemplates[(n % Len(ActionTemplates)) + 1])
           \o ActionCandidates(segs, n + 1)

\* a variant that records no text as seen
RECURSIVE ActionPatternPath_NoSeen(_, _, _)
ActionPatternPath_NoSeen(cands, k, seen) ==
    IF k > Len(cands) THEN <<>>
    ELSE LET c == cands[k]
         IN IF CharLen(c.action_text) < MIN_ACTION_LEN \/ LowerText(c.action_text) \in seen
            THEN ActionPatternPath_NoSeen(cands, k + 1, seen)
            ELSE <<[action |-> c.action_text,
                    owner |-> CleanOwnerName(c.owner, c.speaker),
                    due_date |-> ExtractDueDate(c.text),
                    priority |-> DeterminePriority(c.text),
                    confidence |-> PATTERN_CONFIDENCE,
                    has_confidence |-> TRUE]>>
                 \o ActionPatternPath_NoSeen(cands, k + 1, seen)

\* ActionExtractor._extract_with_patterns from candidate k on: a candidate
\* too short or already seen is skipped
RECURSIVE ActionPatternPath(_, _, _)
ActionPatternPath(cands, k, seen) ==
    IF k > Len(cands) THEN <<>>
    ELSE LET c == cands[k]
         IN IF CharLen(c.action_text) < MIN_ACTION_LEN \/ LowerText(c.action_text) \in seen
            THEN ActionPatternPath(cands, k + 1, seen)
            ELSE <<[action |-> c.action_text,
                    owner |-> CleanOwnerName(c.owner, c.speaker),
                    due_date |-> ExtractDueDate(c.text),
                    priority |-> DeterminePriority(c.text),
                    confidence |-> PATTERN_CONFIDENCE,
                    has_confidence |-> TRUE]>>
                 \o ActionPatternPath(cands, k + 1, seen \cup {LowerText(c.action_text)})

-----------------------------------------------------------------------------
(* RiskExtractor *)

RiskIndicators ==
    {<<"risk">>, <<"concern">>, <<"worried">>, <<"issue">>, <<"problem">>, <<"blocker">>,
     <<"blocking">>, <<"challenge">>, <<"threat">>, <<"delay">>, <<"might", "not">>,
     <<"could", "fail">>, <<"won't", "have">>, <<"if", "we", "don't">>,
     <<"if", "we", "can't">>, <<"dependency">>, <<"constraint">>, <<"bottleneck">>,
     <<"vulnerability">>, <<"exposure">>, <<"gap">>, <<"shortfall">>, <<"deficit">>}

MIN_RISK_LEN == 15
MIN_FALLBACK_LEN == 20
MAX_FALLBACK_LEN == 200

\* the templates of risk_extraction_patterns with one group, in their order
RiskTemplates ==
    <<[pre |-> {<<"risk">>, <<"concern">>, <<"worried">>},
       sep |-> {<<>>, <<"is">>}, mid |-> {<<>>, <<"that">>}],
      [pre |-> {<<"issue">>, <<"problem">>, <<"blocker">>},
       sep |-> {<<>>, <<"is">>}, mid |-> {<<>>, <<"with">>}],
      [pre |-> {<<"might">>, <<"could">>},
       sep |-> {<<>>}, mid |-> {<<>>, <<"not">>}],
      [pre |-> {<<"delay">>, <<"constraint">>, <<"bottleneck">>},
       sep |-> {<<>>}, mid |-> {<<"in">>, <<"with">>, <<"on">>}]>>

\* re.sub(r'^(that|is|with)\s+', '', d) and rstrip('.,')
CleanRiskDesc(d) ==
    RStrip(IF Len(d) >= 2 /\ Lower(d[1]) \in {"that", "is", "with"} /\ d[2] \notin NoSpaceBefore
           THEN SubSeq(d, 2, Len(d)) ELSE d)

\* the third of risk_extraction_patterns, with two groups:
\* if (we)? (don't|can't) ([^,]+), ([^.!?]+); the groups are joined by a space
ConditionalRisk(ts) ==
    LET Body(i) == IF PhraseAt(ts, i + 1, <<"we">>) THEN i + 3 ELSE i + 2
        Comma(i) == {k \in (Body(i) + 1)..Len(ts) :
                        /\ ts[k] = ","
                        /\ \A j \in Body(i)..(k - 1) : ts[j] # ","
                        /\ k + 1 <= Len(ts) /\ ts[k + 1] \notin Terminators}
        P == {i \in 1..Len(ts) :
                /\ PhraseAt(ts, i, <<"if">>)
                /\ \E n \in {<<"don't">>, <<"can't">>} : PhraseAt(ts, Body(i) - 1, n)
                /\ RestStartsAt(ts, Body(i))
                /\ Comma(i) # {}}
    IN IF P = {} THEN [found |-> FALSE, desc |-> NoText]
       ELSE LET i == CHOOSE a \in P : \A b \in P : a <= b
                k == CHOOSE c \in Comma(i) : TRUE
            IN [found |-> TRUE,
                desc |-> SubSeq(ts, Body(i), k - 1) \o SubSeq(ts, k + 1, RestEnd(ts, k + 1))]

\* the description the k-th of the five patterns gives, NoText when the
\* pattern does not match or its description is too short
RiskDescOf(ts, k) ==
    LET T(n) == TemplateSearch(ts, RiskTemplates[n].pre, FALSE, RiskTemplates[n].sep,
                               RiskTemplates[n].mid)
        n == IF k <= 2 THEN k ELSE k - 1
        d == IF k = 3
             THEN (IF ConditionalRisk(ts).found THEN CleanRiskDesc(ConditionalRisk(ts).desc)
                   ELSE NoText)
             ELSE (IF T(n).found THEN CleanRiskDesc(GroupRest(ts, T(n))) ELSE NoText)
    IN IF CharLen(d) > MIN_RISK_LEN THEN d ELSE NoText

\* the fallback: the whole segment without a leading "word:"
RiskFallback(ts) ==
    LET clean == RStrip(IF Len(ts) >= 2 /\ IsAlphaWord(ts[1]) /\ ts[2] = ":"
                        THEN SubSeq(ts, 3, Len(ts)) ELSE ts)
    IN IF /\ HasAnyKeyword(ts, {<<"risk">>, <<"concern">>, <<"blocker">>, <<"issue">>})
          /\ CharLen(clean) > MIN_FALLBACK_LEN
          /\ CharLen(clean) < MAX_FALLBACK_LEN
       THEN clean ELSE NoText

\* _extract_risk_description
ExtractRiskDescription(ts) ==
    LET Hits == {k \in 1..5 : RiskDescOf(ts, k) # NoText}
    IN IF Hits # {} THEN RiskDescOf(ts, CHOOSE k \in Hits : \A j \in Hits : k <= j)
       ELSE RiskFallback(ts)

CategorizeRisk(d) ==
    IF HasAnyKeyword(d, {<<"delay">>, <<"deadline">>, <<"schedule">>, <<"timeline">>,
                         <<"launch">>, <<"date">>, <<"week">>, <<"month">>})
    THEN "Timeline"
    ELSE IF HasAnyKeyword(d, {<<"integration">>, <<"performance">>, <<"bug">>, <<"system">>,
                         <<"api">>, <<"technical">>, <<"data">>, <<"security">>})
    THEN "Technical"
    ELSE IF HasAnyKeyword(d, {<<"budget">>, <<"staff">>, <<"person">>, <<"capacity">>,
                         <<"resource">>, <<"team">>, <<"engineer">>, <<"support">>})
    THEN "Resource"
    ELSE IF HasAnyKeyword(d, {<<"compliance">>, <<"legal">>, <<"audit">>, <<"regulation">>,
                         <<"gdpr">>, <<"ccpa">>, <<"privacy">>})
    THEN "Regulatory"
    ELSE IF HasAnyKeyword(d, {<<"customer">>, <<"market">>, <<"competitor">>, <<"stakeholder">>,
                         <<"revenue">>, <<"adoption">>})
    THEN "Business"
    ELSE "Other"

\* RiskExtractor._extract_with_patterns from segment i on
RECURSIVE RiskPatternPath(_, _, _)
RiskPatternPath(segs, i, seen) ==
    IF i > Len(segs) THEN <<>>
    ELSE LET d == IF HasAnyKeyword(segs[i].text, RiskIndicators)
                  THEN ExtractRiskDescription(segs[i].text) ELSE NoText
         IN IF d = NoText \/ LowerText(d) \in seen
            THEN RiskPatternPath(segs, i + 1, seen)
            ELSE <<[risk |-> d,
                    category |-> CategorizeRisk(d),
                    mentioned_by |-> IF segs[i].speaker # NoSpeaker THEN segs[i].speaker
                                     ELSE "Unknown",
                    confidence |-> PATTERN_CONFIDENCE,
                    has_confidence |-> TRUE]>>
                 \o RiskPatternPath(segs, i + 1, seen \cup {LowerText(d)})

-----------------------------------------------------------------------------
(* OllamaAdapter and MeetingExtractor.extract_structured_data *)

MIN_CONFIDENCE == 40
DEFAULT_CONFIDENCE == 50

ItemTypes == {"decisions", "action_items", "risks"}

\* the transcript of the model
SampleTranscript ==
    <<[speaker |-> "Sarah",
       text |-> <<"we", "decided", "to", "ship", "the", "release", "on", "friday", ".">>],
      [speaker |-> "Marcus", text |-> <<"Sarah", "will", "update", "the", "status", "report", ".">>],
      [speaker |-> "Marcus", text |-> <<"I", "will", "update", "the", "status", "report", ".">>],
      [speaker |-> "Sarah",
       text |-> <<"the", "risk", "is", "that", "the", "security", "audit", "slips", ".">>],
      [speaker |-> NoSpeaker, text |-> <<"sounds", "good", ".">>],
      [speaker |-> "Sarah",
       text |-> <<"Sarah", ",", "can", "you", "send", "the", "invites", ".",
                  "Marcus", "will", "book", "the", "room", "by", "friday", ".">>]>>

SampleSegments == {SampleTranscript[i] : i \in DOMAIN SampleTranscript}

\* the segment lists the extractor is given, and the ones the validator and
\* the tracker are given: nothing, the start of the transcript, all of it
SegmentLists == UNION {[1..n -> SampleSegments] : n \in 1..MaxSegs}

SourceSegmentLists == {SubSeq(SampleTranscript, 1, n) : n \in 0..MaxSegs} \cup {SampleTranscript}

\* the items a parsed answer of the model holds: the confidence of an item
\* is whatever the model wrote, or is missing
LlmItems(type) ==
    [k \in 1..5 |->
        LET c == <<100, 90, 40, 30, 0>>[k]
            has == k < 5
        IN IF type = "decisions"
           THEN [decision |-> <<"ship", "on", "friday">>, rationale |-> NoText,
                 participants |-> <<"Sarah">>, confidence |-> c, has_confidence |-> has]
           ELSE IF type = "action_items"
           THEN [action |-> <<"update", "the", "status", "report">>, owner |-> "Sarah",
                 due_date |-> NoText, priority |-> "medium", confidence |-> c,
                 has_confidence |-> has]
           ELSE [risk |-> <<"the", "security", "audit", "slips">>, category |-> "Technical",
                 mentioned_by |-> "Sarah", confidence |-> c, has_confidence |-> has]]

\* what happens to one POST to the server: the call raises, the status is
\* not 200, or the status is 200 and the answer carries a text
FailureKinds == {"exception", "non200", "empty", "no_braces", "bad_json"}

ReplyKinds == FailureKinds \cup {"json_no_key", "json_items"}

EmptyDict == [has_key |-> FALSE, items |-> <<>>]

\* OllamaAdapter.generate_text: "" when the call raises or the status is not
\* 200, the stripped text of the answer otherwise
GenerateText(kind, type) ==
    IF kind \in {"exception", "non200"} THEN [empty |-> TRUE, kind |-> kind]
    ELSE [empty |-> kind = "empty", kind |-> kind]

\* OllamaAdapter._parse_json_response: {} unless the text between the first
\* "{" and the last "}" is JSON
ParseJsonResponse(text, type) ==
    IF text.kind = "json_items" THEN [has_key |-> TRUE, items |-> LlmItems(type)]
    ELSE EmptyDict

\* OllamaAdapter.extract_structured_data: no exception leaves it
AdapterExtractStructuredData(kind, type) ==
    LET text == GenerateText(kind, type)
    IN [raised |-> FALSE,
        value |-> IF text.empty THEN EmptyDict ELSE ParseJsonResponse(text, type)]

PatternPath(type, segs) ==
    IF type = "decisions" THEN DecisionPatternPath(segs, 1)
    ELSE IF type = "action_items" THEN ActionPatternPath(ActionCandidates(segs, 0), 1, {})
    ELSE RiskPatternPath(segs, 1, {})

\* _extract_with_llm up to its except clause: whether the call raised, and
\* response.get(key, []) when it did not
ExtractWithLlm(type, kind) ==
    LET call == AdapterExtractStructuredData(kind, type)
    IN [raised |-> call.raised,
        items |-> IF call.value.has_key THEN call.value.items ELSE <<>>]

\* DecisionExtractor.extract, ActionExtractor.extract, RiskExtractor.extract:
\* the pattern path when the adapter has no structured generation, and in
\* the except clause of _extract_with_llm
Extract(type, segs, structured, kind) ==
    IF structured /\ ~ExtractWithLlm(type, kind).raised
    THEN ExtractWithLlm(type, kind).items
    ELSE PatternPath(type, segs)

\* [d for d in items if d.get("confidence", 0) >= 0.4]
FilterConfident(items) ==
    SelectSeq(items, LAMBDA d : (IF d.has_confidence THEN d.confidence ELSE 0) >= MIN_CONFIDENCE)

\* item.get("confidence", 0.5)
ConfidenceOf(d) == IF d.has_confidence THEN d.confidence ELSE DEFAULT_CONFIDENCE

\* _transform_decisions_for_frontend, _transform_actions_for_frontend and
\* _transform_risks_for_frontend
TransformForFrontend(type, items) ==
    [k \in 1..Len(items) |->
        IF type = "decisions"
        THEN [text |-> items[k].decision,
              speaker |-> IF items[k].participants # <<>> THEN items[k].participants[1]
                          ELSE NoSpeaker,
              confidence |-> ConfidenceOf(items[k]),
              rationale |-> items[k].rationale]
        ELSE IF type = "action_items"
        THEN [action |-> items[k].action, owner |-> items[k].owner,
              due_date |-> items[k].due_date, priority |-> items[k].priority,
              confidence |-> ConfidenceOf(items[k])]
        ELSE [risk |-> items[k].risk, category |-> items[k].category,
              mentioned_by |-> items[k].mentioned_by,
              confidence |-> ConfidenceOf(items[k])]]

NoLists == [t \in ItemTypes |-> <<>>]

InitExtractInputs ==
    /\ segments \in SegmentLists
    /\ has_structured \in BOOLEAN
    /\ llm_reply \in [ItemTypes -> ReplyKinds]
    /\ has_structured = FALSE => llm_reply = [t \in ItemTypes |-> "exception"]
    /\ ex_pc = "ready"
    /\ ex_raw = NoLists
    /\ ex_out = NoLists

IdleExtract ==
    /\ segments = <<>>
    /\ has_structured = FALSE
    /\ llm_reply = [t \in ItemTypes |-> "exception"]
    /\ ex_pc = "idle"
    /\ ex_raw = NoLists
    /\ ex_out = NoLists

\* MeetingExtractor.extract_structured_data: the three extractors, the
\* confidence filter and the transformation
ExtractStructuredData ==
    /\ ex_pc = "ready"
    /\ ex_raw' = [t \in ItemTypes |-> Extract(t, segments, has_structured, llm_reply[t])]
    /\ ex_out' = [t \in ItemTypes |-> TransformForFrontend(t, FilterConfident(ex_raw'[t]))]
    /\ ex_pc' = "done"
    /\ UNCHANGED <<segments, has_structured, llm_reply>>
    /\ UNCHANGED <<aggVars, batchVars, valVars, provVars, calVars, tagVars, evalVars, jobVars>>

-----------------------------------------------------------------------------
(* ExtractionValidator                                                     *)
(*                                                                         *)
(* str.split() cuts a text at its spaces: a word is a token with the       *)
(* punctuation that follows it.  `phrase in source_text` is a test on      *)
(* characters: the phrase may start inside a word of the source and end    *)
(* inside another; the words of the model that end or start with another   *)
(* word of the model are listed in ProperAffixes.  A fraction is a record  *)
(* [num, den] and is compared by cross multiplication.                     *)

ProperAffixes ==
    [suffix |-> {<<"he", "the">>, <<"date", "update">>},
     prefix |-> {<<"i", "is">>, <<"i", "invites">>, <<"stat", "status">>, <<"day", "days">>}]

Frac(n, d) == [num |-> n, den |-> d]

FracGt(a, b) == a.num * b.den > b.num * a.den

\* text.split(): the words of a text, each the sequence of its tokens
Split(ts) ==
    LET starts == SelectSeq([i \in 1..Len(ts) |-> i],
                            LAMBDA i : i = 1 \/ ts[i] \notin NoSpaceBefore)
    IN [k \in DOMAIN starts |->
          [from |-> starts[k],
           to |-> IF k < Len(starts) THEN starts[k + 1] - 1 ELSE Len(ts)]]

\* set(text.split())
WordSet(ts) ==
    LET words == Split(ts)
    IN {SubSeq(ts, words[k].from, words[k].to) : k \in DOMAIN words}

\* ' '.join([seg.text for seg in source_segments]).lower()
RECURSIVE SourceText(_, _)
SourceText(segs, i) ==
    IF i > Len(segs) THEN <<>> ELSE LowerText(segs[i].text) \o SourceText(segs, i + 1)

\* `phrase in source_text` for the tokens ph of a phrase
InSource(ph, src) ==
    \E pos \in 1..(Len(src) - Len(ph) + 1) :
        \A j \in 1..Len(ph) :
            \/ src[pos + j - 1] = ph[j]
            \/ j = 1 /\ Len(ph) > 1 /\ <<ph[j], src[pos]>> \in ProperAffixes.suffix
            \/ j = Len(ph) /\ Len(ph) > 1 /\ <<ph[j], src[pos + j - 1]>> \in ProperAffixes.prefix

\* _extract_key_phrases and _is_meaningful_phrase: <<i, n>> is the phrase of
\* the n words from word i on; the list holds a phrase as often as it occurs
KeyPhrases(ts) ==
    LET words == Split(ts)
        stopwords == {"the", "a", "an", "and", "or", "but", "in", "on", "at", "to", "for",
                      "of", "with", "by"}
        Meaningful(i, n) ==
            2 * Cardinality({k \in i..(i + n - 1) :
                                SubSeq(ts, words[k].from, words[k].to) \notin
                                    {<<w>> : w \in stopwords}}) >= n
    IN {p \in (1..Len(words)) \X {2, 3, 4} :
            p[1] + p[2] - 1 <= Len(words) /\ Meaningful(p[1], p[2])}

\* _calculate_phrase_support
CalculatePhraseSupport(item_text, source_text) ==
    LET ts == LowerText(item_text)
        words == Split(ts)
        phrases == KeyPhrases(ts)
        supported == {p \in phrases :
                        InSource(SubSeq(ts, words[p[1]].from, words[p[1] + p[2] - 1].to),
                                 source_text)}
    IN IF phrases = {} THEN Frac(0, 1) ELSE Frac(Cardinality(supported), Cardinality(phrases))

\* _calculate_semantic_support: the largest cosine similarity over the
\* segments, in hundredths; 0.0 when encode raises
CalculateSemanticSupport(embed) ==
    IF embed = "raises" THEN Frac(0, 1)
    ELSE IF embed = "edge" THEN Frac(30, 100)
    ELSE Frac(85, 100)

\* _check_hallucination
CheckHallucination(item_text, segs, embed) ==
    IF item_text = NoText \/ segs = <<>>
    THEN [source_support |-> Frac(0, 1), word_overlap |-> Frac(0, 1)]
    ELSE LET item_words == WordSet(LowerText(item_text))
             source_text == SourceText(segs, 1)
             overlap == Cardinality(item_words \cap WordSet(source_text))
             phrase == CalculatePhraseSupport(item_text, source_text)
             semantic == CalculateSemanticSupport(embed)
         IN [source_support |-> IF embed # "none" /\ FracGt(semantic, phrase)
                                THEN semantic ELSE phrase,
             word_overlap |-> Frac(overlap, Cardinality(item_words))]

\* _contains_contradiction: \bcan\b also matches the start of can't
ContainsContradiction(item_text) ==
    LET ts == LowerText(item_text)
        pairs == {<<{"yes"}, {"no"}>>, <<{"will"}, {"won't"}>>,
                  <<{"can", "can't"}, {"can't"}>>, <<{"agree"}, {"disagree"}>>}
    IN \E p \in pairs : \E i, j \in 1..Len(ts) :
          /\ i < j
          /\ \/ ts[i] \in p[1] /\ ts[j] \in p[2]
             \/ ts[i] \in p[2] /\ ts[j] \in p[1]

\* _check_logical_consistency with _has_clear_action_verb and
\* _has_decision_language
CheckLogicalConsistency(item_text, item_type) ==
    LET words == WordSet(LowerText(item_text))
        action_verbs == {"send", "create", "update", "review", "complete", "finish",
                         "schedule", "organize", "prepare", "develop", "implement",
                         "follow", "contact", "coordinate", "analyze", "test"}
        decision_words == {"decided", "decision", "agreed", "approved", "chosen",
                           "concluded", "determined", "resolved", "settled", "finalized"}
    IN (IF ContainsContradiction(item_text)
        THEN <<[type |-> "contradiction", severity |-> "high"]>> ELSE <<>>)
       \o (IF item_type = "action" /\ ~\E v \in action_verbs : <<v>> \in words
           THEN <<[type |-> "unclear_action", severity |-> "medium"]>>
           ELSE IF item_type = "decision" /\ ~\E w \in decision_words : <<w>> \in words
           THEN <<[type |-> "unclear_decision", severity |-> "medium"]>>
           ELSE <<>>)

\* _has_owner: a capitalised word, or a pronoun in any case
HasOwner(item_text) ==
    \E i \in 1..Len(item_text) :
        \/ item_text[i] \in {"Sarah", "Marcus", "Priya", "We", "Mars"}
        \/ Lower(item_text[i]) \in {"i", "we", "he", "she", "they"}

\* _check_completeness
CheckCompleteness(item_text, item_type) ==
    (IF Len(Split(item_text)) < 3
     THEN <<[type |-> "too_short", severity |-> "medium"]>> ELSE <<>>)
    \o (IF Len(item_text) > 0 /\ \/ item_text[Len(item_text)] = "..."
                                 \/ Len(item_text) > 1 /\ item_text[Len(item_text)] = "and"
        THEN <<[type |-> "truncated", severity |-> "medium"]>> ELSE <<>>)
    \o (IF /\ item_type = "action"
           /\ \E i \in 1..Len(item_text) : Lower(item_text[i]) = "will"
           /\ ~HasOwner(item_text)
        THEN <<[type |-> "missing_owner", severity |-> "low"]>> ELSE <<>>)

\* dict.update
Update(d, e) == [k \in DOMAIN d \cup DOMAIN e |-> IF k \in DOMAIN e THEN e[k] ELSE d[k]]

\* a variant of ValidateSingleItem in which a source_support of 0.3 is enough
ValidateSingleItem_AtThreshold(item_text, segs, item_type, embed) ==
    LET checked == Update([is_valid |-> TRUE, confidence |-> 80, issues |-> <<>>,
                           source_support |-> Frac(0, 1), word_overlap |-> Frac(0, 1)],
                          CheckHallucination(item_text, segs, embed))
        issues == checked.issues \o CheckLogicalConsistency(item_text, item_type)
                    \o CheckCompleteness(item_text, item_type)
    IN [checked EXCEPT
          !.issues = issues,
          !.is_valid = /\ ~FracGt(Frac(3, 10), checked.source_support)
                       /\ \A i \in DOMAIN issues : issues[i].severity # "high"]

\* _validate_single_item
ValidateSingleItem(item_text, segs, item_type, embed) ==
    LET checked == Update([is_valid |-> TRUE, confidence |-> 80, issues |-> <<>>,
                           source_support |-> Frac(0, 1), word_overlap |-> Frac(0, 1)],
                          CheckHallucination(item_text, segs, embed))
        issues == checked.issues \o CheckLogicalConsistency(item_text, item_type)
                    \o CheckCompleteness(item_text, item_type)
    IN [checked EXCEPT
          !.issues = issues,
          !.is_valid = /\ FracGt(checked.source_support, Frac(3, 10))
                       /\ \A i \in DOMAIN issues : issues[i].severity # "high"]

\* `name.lower() in source_text` and `name in source_speakers`
NameInSource(name, segs) ==
    [in_text |-> \E t \in {SourceText(segs, 1)[i] : i \in 1..Len(SourceText(segs, 1))} :
                    t = Lower(name) \/ <<Lower(name), t>> \in SubstringPairs,
     speaker |-> \E i \in 1..Len(segs) : segs[i].speaker = name /\ name # NoSpeaker]

\* _validate_decision_logic with _validate_participants, without the close
\* match of a participant that is not found; no decision of the model has
\* quantitative_data
ValidateDecisionLogic(decision, segs) ==
    LET ps == decision.participants
        found == [k \in DOMAIN ps |->
                    NameInSource(ps[k], segs).in_text \/ NameInSource(ps[k], segs).speaker]
    IN IF ps = <<>> THEN <<>>
       ELSE [participant_validation |->
                [participants |-> [k \in DOMAIN ps |->
                                     [name |-> ps[k], found_in_source |-> found[k]]],
                 validation_rate |-> Frac(Cardinality({k \in DOMAIN ps : found[k]}), Len(ps))]]

\* _validate_action_logic with _validate_owner and _validate_date_format,
\* without the close match of an owner that is not a speaker
ValidateActionLogic(action, segs) ==
    LET owner == [owner_validation |->
                    [owner |-> action.owner,
                     found_as_speaker |-> NameInSource(action.owner, segs).speaker,
                     mentioned_in_text |-> NameInSource(action.owner, segs).in_text,
                     is_valid |-> \/ NameInSource(action.owner, segs).speaker
                                  \/ NameInSource(action.owner, segs).in_text]]
        format_valid ==
            \E i \in 1..Len(action.due_date) :
                \/ Lower(action.due_date[i]) \in {"monday", "tuesday", "wednesday", "thursday",
                                                  "friday", "saturday", "sunday"}
                \/ /\ i < Len(action.due_date)
                   /\ Lower(action.due_date[i]) \in {"next", "this", "last"}
                   /\ Lower(action.due_date[i + 1]) \in {"week", "month", "quarter"}
        date == [date_validation |-> [format_valid |-> format_valid,
                                      is_reasonable |-> format_valid]]
    IN Update(IF action.owner # NoSpeaker THEN owner ELSE <<>>,
              IF action.due_date # NoText THEN date ELSE <<>>)

\* the items the validator of the model is given
ValItemChoices(item_type) ==
    IF item_type = "decision"
    THEN {[decision |-> <<"decided", "to", "ship", "the", "release", "on", "friday">>,
           participants |-> <<"Sarah">>],
          [decision |-> <<"We", "will", "launch", "on", "Mars", "next", "year">>,
           participants |-> <<"Priya">>],
          [decision |-> <<"yes", "we", "decided", "no", "release">>, participants |-> <<>>],
          [decision |-> <<"ship", "it">>, participants |-> <<"Sarah", "Priya">>],
          [decision |-> NoText, participants |-> <<>>]}
    ELSE IF item_type = "action"
    THEN {[action |-> <<"send", "the", "invites">>, owner |-> "Sarah", due_date |-> <<"friday">>],
          [action |-> <<"update", "the", "status", "report">>, owner |-> "Marcus",
           due_date |-> NoText],
          [action |-> <<"will", "book", "the", "room", "and">>, owner |-> NoSpeaker,
           due_date |-> <<"soon">>],
          [action |-> <<"Marcus", "will", "book", "yes", "or", "no">>, owner |-> "Priya",
           due_date |-> <<"next", "week">>],
          [action |-> NoText, owner |-> NoSpeaker, due_date |-> NoText]}
    ELSE {[risk |-> <<"the", "security", "audit", "slips">>],
          [risk |-> <<"he", "risk", "is", "high">>],
          [risk |-> <<"yes", "the", "security", "audit", "slips", ",", "no", "doubt">>],
          [risk |-> <<"We", "will", "launch", "on", "Mars", "next", "year">>],
          [risk |-> <<"he", "stat">>],
          [risk |-> NoText]}

\* validate_decisions, validate_actions and validate_risks on one item
ValidateItem(item_type, item, segs, embed) ==
    LET item_text == IF item_type = "decision" THEN item.decision
                     ELSE IF item_type = "action" THEN item.action ELSE item.risk
        type_specific == IF item_type = "decision" THEN ValidateDecisionLogic(item, segs)
                         ELSE IF item_type = "action" THEN ValidateActionLogic(item, segs)
                         ELSE <<>>
    IN Update(item, [validation |->
                       Update(ValidateSingleItem(item_text, segs, item_type, embed),
                              type_specific)])

InitValInputs ==
    /\ val_type \in {"decision", "action", "risk"}
    /\ val_items \in UNION {[1..n -> ValItemChoices(val_type)] : n \in 1..MaxItems}
    /\ val_segments \in SourceSegmentLists
    /\ val_embed \in {"none", "raises", "edge", "near"}
    /\ val_pc = "ready"
    /\ val_out = <<>>

IdleVal ==
    /\ val_type = "risk"
    /\ val_items = <<>>
    /\ val_segments = <<>>
    /\ val_embed = "none"
    /\ val_pc = "idle"
    /\ val_out = <<>>

\* ExtractionValidator.validate_decisions, validate_actions or validate_risks
Validate ==
    /\ val_pc = "ready"
    /\ val_out' = [k \in DOMAIN val_items |->
                     ValidateItem(val_type, val_items[k], val_segments, val_embed)]
    /\ val_pc' = "done"
    /\ UNCHANGED <<val_type, val_items, val_segments, val_embed>>
    /\ UNCHANGED <<aggVars, batchVars, extVars, provVars, calVars, tagVars, evalVars, jobVars>>

-----------------------------------------------------------------------------
(* ProvenanceTracker                                                       *)
(*                                                                         *)
(* The embedding collaborator of the model places a text on one of three   *)
(* topics; the cosine similarity of two texts depends on how far apart     *)
(* their topics are (hundredths).  A segment id of a record counts from 0. *)

NoEmbeddings == [present |-> FALSE, vectors |-> <<>>]

\* embedding_model.encode on one text
Encode(ts) ==
    LET release == HasAnyKeyword(ts, {<<"release">>, <<"ship">>})
        audit == HasAnyKeyword(ts, {<<"risk">>, <<"audit">>})
    IN IF release /\ ~audit THEN 0 ELSE IF audit /\ ~release THEN 2 ELSE 1

\* sklearn's cosine_similarity on two vectors of the model
CosineSimilarity(a, b) == IF a = b THEN 100 ELSE IF Abs(a - b) = 1 THEN 50 ELSE 20

\* the items the tracker of the model is given
ProvItemChoices(item_type) ==
    IF item_type = "decision"
    THEN {[decision |-> <<"decided", "to", "ship", "the", "release", "on", "friday">>,
           confidence |-> 85],
          [decision |-> <<"the", "release", "audit">>, confidence |-> 90],
          [decision |-> <<"the", "security", "audit", "slips">>],
          [decision |-> NoText, confidence |-> 85]}
    ELSE IF item_type = "action"
    THEN {[action |-> <<"decided", "to", "ship", "the", "release", "on", "friday">>],
          [action |-> <<"the", "release", "audit">>]}
    ELSE {[risk |-> <<"the", "security", "audit", "slips">>], [risk |-> NoText]}

\* ProvenanceItem
ProvenanceItem(ids, segs, scores, method) ==
    [source_segment_ids |-> [k \in DOMAIN ids |-> ids[k] - 1],
     source_text |-> [k \in DOMAIN ids |-> segs[ids[k]].text],
     confidence |-> IF scores = <<>> THEN Frac(0, 1)
                    ELSE scores[CHOOSE k \in DOMAIN scores :
                                  \A h \in DOMAIN scores : ~FracGt(scores[h], scores[k])],
     extraction_method |-> method,
     similarity_scores |-> scores]

\* a variant of FindKeywordProvenance in which the matches stay in the order
\* of the segments
FindKeywordProvenance_Unsorted(extracted_text, segs, method) ==
    LET extracted_words == WordSet(LowerText(extracted_text))
        segment_words == [i \in DOMAIN segs |-> WordSet(LowerText(segs[i].text))]
        similarity == [i \in DOMAIN segs |->
                         Frac(Cardinality(extracted_words \cap segment_words[i]),
                              Cardinality(extracted_words \cup segment_words[i]))]
        matched == {i \in DOMAIN segs :
                      similarity[i].den > 0 /\ FracGt(similarity[i], Frac(1, 10))}
        Rank(i) == Cardinality({j \in matched : j < i})
        matches == [k \in 1..Cardinality(matched) |-> CHOOSE i \in matched : Rank(i) = k - 1]
        top_matches == SubSeq(matches, 1, Min(3, Len(matches)))
    IN ProvenanceItem(top_matches, segs,
                      [k \in DOMAIN top_matches |-> similarity[top_matches[k]]], method)

\* a variant of FindKeywordProvenance in which the similarity is the share of
\* the extracted words that the segment holds
FindKeywordProvenance_Overlap(extracted_text, segs, method) ==
    LET extracted_words == WordSet(LowerText(extracted_text))
        segment_words == [i \in DOMAIN segs |-> WordSet(LowerText(segs[i].text))]
        similarity == [i \in DOMAIN segs |->
                         Frac(Cardinality(extracted_words \cap segment_words[i]),
                              Cardinality(extracted_words))]
        matched == {i \in DOMAIN segs :
                      similarity[i].den > 0 /\ FracGt(similarity[i], Frac(1, 10))}
        Rank(i) == Cardinality({j \in matched :
                                  \/ FracGt(similarity[j], similarity[i])
                                  \/ ~FracGt(similarity[i], similarity[j]) /\ j < i})
        matches == [k \in 1..Cardinality(matched) |-> CHOOSE i \in matched : Rank(i) = k - 1]
        top_matches == SubSeq(matches, 1, Min(3, Len(matches)))
    IN ProvenanceItem(top_matches, segs,
                      [k \in DOMAIN top_matches |-> similarity[top_matches[k]]], method)

\* _find_keyword_provenance: the matches in the order of a stable sort,
\* largest similarity first
FindKeywordProvenance(extracted_text, segs, method) ==
    LET extracted_words == WordSet(LowerText(extracted_text))
        segment_words == [i \in DOMAIN segs |-> WordSet(LowerText(segs[i].text))]
        similarity == [i \in DOMAIN segs |->
                         Frac(Cardinality(extracted_words \cap segment_words[i]),
                              Cardinality(extracted_words \cup segment_words[i]))]
        matched == {i \in DOMAIN segs :
                      similarity[i].den > 0 /\ FracGt(similarity[i], Frac(1, 10))}
        Rank(i) == Cardinality({j \in matched :
                                  \/ FracGt(similarity[j], similarity[i])
                                  \/ ~FracGt(similarity[i], similarity[j]) /\ j < i})
        matches == [k \in 1..Cardinality(matched) |-> CHOOSE i \in matched : Rank(i) = k - 1]
        top_matches == SubSeq(matches, 1, Min(3, Len(matches)))
    IN ProvenanceItem(top_matches, segs,
                      [k \in DOMAIN top_matches |-> similarity[top_matches[k]]], method)

\* similarities.argsort()[-3:][::-1]: the places of the three largest
\* similarities, largest first; the order of equal similarities is the
\* sort's own
TopIndices(similarities) ==
    {top \in [1..Min(3, Len(similarities)) -> DOMAIN similarities] :
        /\ \A k, h \in DOMAIN top : k < h =>
              top[k] # top[h] /\ similarities[top[k]] >= similarities[top[h]]
        /\ \A i \in DOMAIN similarities :
              (\A k \in DOMAIN top : top[k] # i) =>
                  \A k \in DOMAIN top : similarities[i] <= similarities[top[k]]}

\* an exception that leaves the call it was raised in
Raised == [raised |-> TRUE]

\* a variant of _find_semantic_provenance without its try: what encode
\* raises leaves the call
FindSemanticProvenance_NoExcept(extracted_text, segs, embeddings, method, encode_ok, keyword) ==
    LET similarities == [i \in DOMAIN embeddings |->
                           CosineSimilarity(Encode(extracted_text), embeddings[i])]
        Kept(top_indices) == SelectSeq(top_indices, LAMBDA i : similarities[i] > 30)
    IN {IF ~encode_ok \/ \E k \in DOMAIN Kept(top) : Kept(top)[k] > Len(segs)
        THEN Raised
        ELSE ProvenanceItem(Kept(top), segs,
                            [k \in DOMAIN Kept(top) |-> Frac(similarities[Kept(top)[k]], 100)],
                            method) :
          top \in TopIndices(similarities)}

\* _find_semantic_provenance: the records it may return, one for each
\* outcome of the sort; keyword is what _find_keyword_provenance returns,
\* taken when encode raises or an index is past the end of segments
FindSemanticProvenance(extracted_text, segs, embeddings, method, encode_ok, keyword) ==
    LET similarities == [i \in DOMAIN embeddings |->
                           CosineSimilarity(Encode(extracted_text), embeddings[i])]
        Kept(top_indices) == SelectSeq(top_indices, LAMBDA i : similarities[i] > 30)
    IN {IF ~encode_ok \/ \E k \in DOMAIN Kept(top) : Kept(top)[k] > Len(segs)
        THEN keyword
        ELSE ProvenanceItem(Kept(top), segs,
                            [k \in DOMAIN Kept(top) |-> Frac(similarities[Kept(top)[k]], 100)],
                            method) :
          top \in TopIndices(similarities)}

\* a variant of FindProvenance that takes the semantic path whenever
\* embeddings are stored
FindProvenance_StoredEmbeddings(extracted_text, method, encode_ok) ==
    LET keyword == FindKeywordProvenance(extracted_text, pv_segments, method)
    IN IF pv_segments = <<>> THEN {ProvenanceItem(<<>>, pv_segments, <<>>, method)}
       ELSE IF pv_embeddings.present
       THEN FindSemanticProvenance(extracted_text, pv_segments, pv_embeddings.vectors, method,
                                   encode_ok, keyword)
       ELSE {keyword}

\* _find_provenance: the records it may return
FindProvenance(extracted_text, method, encode_ok) ==
    LET keyword == FindKeywordProvenance(extracted_text, pv_segments, method)
    IN IF pv_segments = <<>> THEN {ProvenanceItem(<<>>, pv_segments, <<>>, method)}
       ELSE IF pv_embeddings.present /\ pv_model
       THEN FindSemanticProvenance(extracted_text, pv_segments, pv_embeddings.vectors, method,
                                   encode_ok, keyword)
       ELSE {keyword}

\* sum() of a list of fractions, from place k on
RECURSIVE FracSum(_, _)
FracSum(fs, k) ==
    IF k > Len(fs) THEN Frac(0, 1)
    ELSE Frac(fs[k].num * FracSum(fs, k + 1).den + FracSum(fs, k + 1).num * fs[k].den,
              fs[k].den * FracSum(fs, k + 1).den)

InitTracker ==
    /\ pv_segments = <<>>
    /\ pv_embeddings = NoEmbeddings
    /\ pv_model = FALSE
    /\ pv_pc = "ready"
    /\ pv_record = <<>>
    /\ pv_out = <<>>

IdleProv ==
    /\ pv_segments = <<>>
    /\ pv_embeddings = NoEmbeddings
    /\ pv_model = FALSE
    /\ pv_pc = "idle"
    /\ pv_record = <<>>
    /\ pv_out = <<>>

\* the segment lists the tracker is given: the ones of SourceSegmentLists
\* and a list that has other segments at the same places
TrackerSegmentLists ==
    SourceSegmentLists \cup {<<SampleTranscript[4], SampleTranscript[1]>>}

\* ProvenanceTracker.set_source_segments
SetSourceSegments ==
    /\ pv_pc = "ready"
    /\ \E segs \in TrackerSegmentLists, embedding_model \in BOOLEAN, encode_ok \in BOOLEAN :
          /\ embedding_model \/ encode_ok
          /\ pv_segments' = segs
          /\ pv_model' = embedding_model
          /\ pv_embeddings' =
                IF ~embedding_model THEN pv_embeddings
                ELSE IF encode_ok
                THEN [present |-> TRUE, vectors |-> [i \in DOMAIN segs |-> Encode(segs[i].text)]]
                ELSE NoEmbeddings
    /\ UNCHANGED <<pv_pc, pv_record, pv_out>>
    /\ UNCHANGED <<aggVars, batchVars, extVars, valVars, calVars, tagVars, evalVars, jobVars>>

\* ProvenanceTracker.track_decision, track_action and track_risk, with the
\* default extraction_method; they have no try of their own, so what
\* _find_provenance raises leaves them
Track ==
    /\ pv_pc = "ready"
    /\ \E item_type \in {"decision", "action", "risk"}, encode_ok \in BOOLEAN :
        \E item \in ProvItemChoices(item_type) :
          LET text == IF item_type = "decision" THEN item.decision
                      ELSE IF item_type = "action" THEN item.action ELSE item.risk
          IN \E provenance \in FindProvenance(text, "llm", encode_ok) :
                LET scores == provenance.similarity_scores
                    boosted == /\ item_type = "decision"
                               /\ scores # <<>>
                               /\ FracGt(FracSum(scores, 1), Frac(7 * Len(scores), 10))
                    tracked == Update(item, [provenance |->
                                  [source_segment_ids |-> provenance.source_segment_ids,
                                   source_text |-> provenance.source_text,
                                   similarity_scores |-> scores,
                                   extraction_method |-> provenance.extraction_method]])
                IN IF provenance = Raised
                   THEN /\ pv_record' = Raised
                        /\ pv_out' = Raised
                        /\ pv_pc' = "raised"
                   ELSE /\ pv_record' = provenance
                        /\ pv_out' = IF boosted
                                     THEN Update(tracked,
                                            [confidence |-> Min((IF "confidence" \in DOMAIN item
                                                                 THEN item.confidence ELSE 50) + 10, 95)])
                                     ELSE tracked
                        /\ pv_pc' = "tracked"
    /\ UNCHANGED <<pv_segments, pv_embeddings, pv_model>>
    /\ UNCHANGED <<aggVars, batchVars, extVars, valVars, calVars, tagVars, evalVars, jobVars>>

-----------------------------------------------------------------------------
(* MeetingExtractor: confidence calibration                                *)
(*                                                                         *)
(* The regular expressions of _calculate_quantitative_boost are applied to *)
(* the tokens of a text, whatever their case.  A pattern that ends in \s+  *)
(* needs a following token with a space before it.  \b\d+%\b needs a word  *)
(* character right after the percent sign, which no text of tokens has.    *)

\* the texts whose confidence the model calibrates
CalTexts ==
    {<<"we", "decided", "to", "ship", "on", "Friday">>,
     <<"we", "should", "ship", "3", "features">>,
     <<"sounds", "good">>,
     <<"move", "the", "launch", "to", "next", "week">>,
     <<"she", "is", "willing", "to", "help">>,
     <<"we", "will", "reduce", "cost", "by", "20%", "instead", "of", "hiring", "in", "Q3">>,
     <<"ship", "in", "3", "days">>,
     <<"shift", "to", "Friday">>,
     <<"we", "could", "ship", "3", "features", "by", "Friday", "instead", "of", "next", "month">>,
     <<"we", "should", "ship">>,
     <<"ship", "it", "instead", "of", "waiting">>,
     <<"reduce", "to", "10", "the", "second", "phase", ".">>}

\* the cosine similarities, in hundredths, that the embeddings may give
SimilarityChoices == {30, 31, 50, 51, 70, 71}

\* date_patterns
HasDatePattern(text) ==
    LET t == LowerText(text)
        months == {"january", "february", "march", "april", "may", "june", "july", "august",
                   "september", "october", "november", "december"}
        weekdays == {"monday", "tuesday", "wednesday", "thursday", "friday", "saturday",
                     "sunday"}
        days == {"3", "10", "15", "20", "15th"}
        slashed == {"10/15/2025"}
        StartsWith(w, ws) == w \in ws \/ \E p \in ws : <<p, w>> \in ProperAffixes.prefix
    IN \E i \in 1..Len(t) :
          \/ t[i] \in months /\ i < Len(t) /\ t[i + 1] \in days
          \/ t[i] \in slashed
          \/ /\ t[i] \in {"next", "this", "last"}
             /\ i < Len(t)
             /\ StartsWith(t[i + 1], {"week", "month", "quarter"})
          \/ StartsWith(t[i], weekdays)
          \/ t[i] \in {"q1", "q2", "q3", "q4"}

\* number_patterns
HasNumberPattern(text) ==
    LET t == LowerText(text)
        digits == {"3", "10", "15", "20"}
        StartsWith(w, ws) == w \in ws \/ \E p \in ws : <<p, w>> \in ProperAffixes.prefix
    IN \E i \in 1..Len(t) :
          \/ /\ t[i] \in digits
             /\ i < Len(t)
             /\ \/ t[i + 1] \in {"feature", "features", "item", "items", "risk", "risks",
                                 "decision", "decisions", "action", "actions"}
                \/ StartsWith(t[i + 1], {"day", "week", "month", "hour"})
                \/ StartsWith(t[i + 1], {"core", "additional", "total"})
          \/ t[i] \in {"$5", "$5k", "$200"}
          \/ /\ t[i] \in digits \cup {"first", "second", "third", "fourth", "fifth"}
             /\ i < Len(t)
             /\ StartsWith(t[i + 1], {"phase", "stage", "step"})

\* comparison_patterns
HasComparisonPattern(text) ==
    LET t == LowerText(text)
        n == Len(t)
        Spaced(i) == i <= n /\ t[i] \notin NoSpaceBefore
        StartsWithDigit(w) == w \in {"3", "10", "15", "20", "20%", "15th", "10/15/2025"}
        EndsWith(w, ws) == w \in ws \/ \E p \in ws : <<p, w>> \in ProperAffixes.suffix
    IN \/ \E i, j \in 1..n :
             /\ EndsWith(t[i], {"from", "change", "push", "move", "shift"})
             /\ Spaced(i + 1)
             /\ j >= i + 2
             /\ t[j] = "to"
             /\ Spaced(j + 1)
       \/ \E i \in 1..n : \E ph \in {<<"instead", "of">>, <<"rather", "than">>, <<"versus">>,
                                     <<"vs">>, <<"vs", ".">>} :
             /\ PhraseAt(t, i, ph)
             /\ Spaced(i + Len(ph))
       \/ \E i \in 1..n :
             /\ EndsWith(t[i], {"increase", "decrease", "reduce", "expand"})
             /\ i + 2 <= n
             /\ t[i + 1] \in {"from", "by", "to"}
             /\ StartsWithDigit(t[i + 2])

\* a variant of CalculateQuantitativeBoost in which the comparison sets the
\* boost instead of adding to it
CalculateQuantitativeBoost_Assigned(text) ==
    IF HasComparisonPattern(text) THEN 5
    ELSE (IF HasDatePattern(text) THEN 10 ELSE 0) + (IF HasNumberPattern(text) THEN 10 ELSE 0)

\* _calculate_quantitative_boost, in hundredths
CalculateQuantitativeBoost(text) ==
    (IF HasDatePattern(text) THEN 10 ELSE 0)
    + (IF HasNumberPattern(text) THEN 10 ELSE 0)
    + (IF HasComparisonPattern(text) THEN 5 ELSE 0)

\* _calculate_keyword_confidence, in hundredths
CalculateKeywordConfidence(text) ==
    LET explicit == {<<"will">>, <<"decided">>, <<"agreed">>, <<"must">>, <<"approved">>,
                     <<"finalized">>}
        suggestive == {<<"should">>, <<"might">>, <<"could">>, <<"consider">>, <<"propose">>}
        confidence == IF HasAnyKeyword(text, explicit) THEN 90
                      ELSE IF HasAnyKeyword(text, suggestive) THEN 70
                      ELSE 50
    IN Min(confidence + CalculateQuantitativeBoost(text), 95)

\* a variant of CalculateSemanticConfidence in which a similarity on a
\* threshold counts as above it
CalculateSemanticConfidence_AtThreshold(text, embedding_model, summary_embedding, similarity, raises) ==
    IF ~embedding_model \/ ~summary_embedding THEN CalculateKeywordConfidence(text)
    ELSE IF raises THEN CalculateKeywordConfidence(text)
    ELSE LET base_confidence == IF similarity >= 70 THEN 90
                                ELSE IF similarity >= 50 THEN 70
                                ELSE IF similarity >= 30 THEN 50
                                ELSE 40
         IN Min(base_confidence + CalculateQuantitativeBoost(text), 95)

\* _calculate_semantic_confidence, in hundredths: similarity is the cosine
\* similarity of the text and the summary, raises tells whether encode or
\* cosine_similarity raises
CalculateSemanticConfidence(text, embedding_model, summary_embedding, similarity, raises) ==
    IF ~embedding_model \/ ~summary_embedding THEN CalculateKeywordConfidence(text)
    ELSE IF raises THEN CalculateKeywordConfidence(text)
    ELSE LET base_confidence == IF similarity > 70 THEN 90
                                ELSE IF similarity > 50 THEN 70
                                ELSE IF similarity > 30 THEN 50
                                ELSE 40
         IN Min(base_confidence + CalculateQuantitativeBoost(text), 95)

\* what the embedding model does in one call: the cosine similarity of the
\* text and the summary, and whether encode or cosine_similarity raises
CollaboratorChoices ==
    {[similarity |-> x, raises |-> FALSE] : x \in SimilarityChoices}
    \cup {[similarity |-> 30, raises |-> TRUE], [similarity |-> 71, raises |-> TRUE]}

\* the embedding model is not asked
NotConsulted == [similarity |-> 0, raises |-> FALSE]

\* MeetingExtractor.__init__, and the texts of the two segments of a run
InitCalibrator ==
    /\ cal_model = FALSE
    /\ cal_summary = FALSE
    /\ cal_texts \in [1..2 -> CalTexts]
    /\ cal_calls = <<>>

IdleCal ==
    /\ cal_model = FALSE
    /\ cal_summary = FALSE
    /\ cal_texts = <<>>
    /\ cal_calls = <<>>

\* _cache_summary_embedding of an extractor that has a run;
\* _get_embedding_model returns the model it has or the one it can load now
CacheSummaryEmbedding ==
    /\ cal_texts # <<>>
    /\ \E loads \in BOOLEAN, encode_ok \in BOOLEAN :
          LET embedding_model == cal_model \/ loads
          IN /\ cal_model' = embedding_model
             /\ cal_summary' = IF embedding_model THEN encode_ok ELSE cal_summary
    /\ UNCHANGED <<cal_texts, cal_calls>>
    /\ UNCHANGED <<aggVars, batchVars, extVars, valVars, provVars, tagVars, evalVars, jobVars>>

\* _calculate_semantic_confidence on the text of the next segment; the
\* embedding model is consulted only when it and the summary embedding are
\* there
Calibrate ==
    /\ Len(cal_calls) < Len(cal_texts)
    /\ \E loads \in BOOLEAN, reply \in CollaboratorChoices \cup {NotConsulted} :
          LET text == cal_texts[Len(cal_calls) + 1]
              embedding_model == cal_model \/ loads
              consulted == embedding_model /\ cal_summary
          IN /\ consulted <=> reply # NotConsulted
             /\ cal_model' = embedding_model
             /\ cal_calls' = Append(cal_calls,
                  [text |-> text, embedding_model |-> embedding_model,
                   summary_embedding |-> cal_summary, similarity |-> reply.similarity,
                   raises |-> reply.raises,
                   confidence |-> CalculateSemanticConfidence(text, embedding_model,
                                      cal_summary, reply.similarity, reply.raises)])
    /\ UNCHANGED <<cal_summary, cal_texts>>
    /\ UNCHANGED <<aggVars, batchVars, extVars, valVars, provVars, tagVars, evalVars, jobVars>>

-----------------------------------------------------------------------------
(* IntentTagger *)

\* the keys of INTENT_EXAMPLES, in the order of the dict
INTENTS == <<"decision", "action", "risk", "discussion">>

\* None where an intent is expected
NoIntent == ""

\* the segments the tagger of the model is given: those of the sample
\* transcript and one whose first sentence is shorter than 10 characters
TagSegmentLists ==
    UNION {[1..n -> SampleSegments
                    \cup {[speaker |-> "Marcus", text |-> <<"ok", ".", "we", "agreed", "!">>]}] :
             n \in 1..MaxSegs}

\* what the embedding model does on one sentence: it raises, or the cosine
\* similarities of the sentence and the intent embeddings, in hundredths
ReplyChoices ==
    {[raises |-> TRUE, scores |-> [x \in {} |-> 0]],
     [raises |-> FALSE,
      scores |-> [decision |-> 80, action |-> 70, risk |-> 20, discussion |-> 30]],
     [raises |-> FALSE,
      scores |-> [decision |-> 60, action |-> 40, risk |-> 30, discussion |-> 20]],
     [raises |-> FALSE,
      scores |-> [decision |-> 10, action |-> 20, risk |-> 30, discussion |-> 80]],
     [raises |-> FALSE,
      scores |-> [decision |-> 10, action |-> 20, risk |-> 70, discussion |-> 90]]}

\* re.split(r'[.!?]+\s+', text): the text is cut at every run of terminators
\* that a space follows
SplitSentences(ts) ==
    LET n == Len(ts)
        IsSepEnd(e) == e >= 1 /\ e < n /\ ts[e] \in Terminators /\ ts[e + 1] \notin NoSpaceBefore
        starts == SelectSeq([i \in 1..n |-> i], LAMBDA i : i = 1 \/ IsSepEnd(i - 1))
        End(s) ==
            LET seps == {e \in s..n : IsSepEnd(e)}
            IN IF seps = {} THEN n
               ELSE LET e == CHOOSE x \in seps : \A y \in seps : x <= y
                        r == CHOOSE x \in s..e :
                                /\ \A y \in x..e : ts[y] \in Terminators
                                /\ x = s \/ ts[x - 1] \notin Terminators
                    IN r - 1
    IN [k \in DOMAIN starts |-> SubSeq(ts, starts[k], End(starts[k]))]

\* the sentences of the segments from segment i on that are not skipped
\* (len(sentence) >= 10), in order, each with the place of its segment
RECURSIVE RunSentences(_, _)
RunSentences(segs, i) ==
    IF i > Len(segs) THEN <<>>
    ELSE LET sentences == SelectSeq(SplitSentences(segs[i].text), LAMBDA s : CharLen(s) >= 10)
         IN [k \in DOMAIN sentences |-> [seg |-> i, sentence |-> sentences[k]]]
            \o RunSentences(segs, i + 1)

\* _tag_sentence_with_keywords
TagSentenceWithKeywords(sentence) ==
    LET decision_keywords == {<<"decided">>, <<"agreed">>, <<"approved">>, <<"concluded">>,
                              <<"finalized">>, <<"settled">>}
        action_keywords == {<<"will">>, <<"should">>, <<"need", "to">>, <<"assigned">>,
                            <<"responsible">>, <<"handle">>, <<"complete">>}
        risk_keywords == {<<"risk">>, <<"concern">>, <<"issue">>, <<"problem">>, <<"blocker">>,
                          <<"challenge">>, <<"threat">>}
    IN IF HasAnyKeyword(sentence, decision_keywords) THEN "decision"
       ELSE IF HasAnyKeyword(sentence, action_keywords) THEN "action"
       ELSE IF HasAnyKeyword(sentence, risk_keywords) THEN "risk"
       ELSE NoIntent

\* the IntentTag of the keyword rule
KeywordTag(sentence, speaker) ==
    LET intent == TagSentenceWithKeywords(sentence)
    IN [sentence |-> sentence, speaker |-> speaker,
        intent |-> IF intent # NoIntent THEN <<intent>> ELSE <<"discussion">>,
        confidence |-> IF intent # NoIntent THEN 60 ELSE 40]

\* a variant of EmbeddingTag in which a sentence that matches no intent keeps
\* an empty intent list
EmbeddingTag_NoDefault(sentence, speaker, intent_scores) ==
    LET high == SelectSeq(INTENTS, LAMBDA intent : intent_scores[intent] > 60)
        keyword_intent == TagSentenceWithKeywords(sentence)
        tagged_intents == IF high # <<>> THEN high
                          ELSE IF keyword_intent # NoIntent THEN <<keyword_intent>>
                          ELSE <<>>
        max_score == CHOOSE x \in {intent_scores[INTENTS[k]] : k \in DOMAIN INTENTS} :
                        \A k \in DOMAIN INTENTS : intent_scores[INTENTS[k]] <= x
    IN [sentence |-> sentence, speaker |-> speaker, intent |-> tagged_intents,
        confidence |-> IF tagged_intents # <<"discussion">> THEN max_score ELSE 40]

\* tag_sentences, lines 105-142: the IntentTag of a sentence whose
\* similarities to the intent embeddings are intent_scores
EmbeddingTag(sentence, speaker, intent_scores) ==
    LET high == SelectSeq(INTENTS, LAMBDA intent : intent_scores[intent] > 60)
        keyword_intent == TagSentenceWithKeywords(sentence)
        tagged_intents == IF high # <<>> THEN high
                          ELSE IF keyword_intent # NoIntent THEN <<keyword_intent>>
                          ELSE <<"discussion">>
        max_score == CHOOSE x \in {intent_scores[INTENTS[k]] : k \in DOMAIN INTENTS} :
                        \A k \in DOMAIN INTENTS : intent_scores[INTENTS[k]] <= x
    IN [sentence |-> sentence, speaker |-> speaker, intent |-> tagged_intents,
        confidence |-> IF tagged_intents # <<"discussion">> THEN max_score ELSE 40]

\* _tag_with_keywords
TagWithKeywords(segs) ==
    LET run == RunSentences(segs, 1)
    IN [k \in DOMAIN run |-> KeywordTag(run[k].sentence, segs[run[k].seg].speaker)]

\* a variant of TagSentences in which the sentences after one on which the
\* embedding model raised are tagged by the keyword rule too
TagSentences_FallbackStays(segs, embedding_model, intent_embeddings, replies) ==
    IF ~intent_embeddings \/ ~embedding_model THEN TagWithKeywords(segs)
    ELSE LET run == RunSentences(segs, 1)
         IN [k \in DOMAIN run |->
               IF \E h \in 1..k : replies[h].raises
               THEN KeywordTag(run[k].sentence, segs[run[k].seg].speaker)
               ELSE EmbeddingTag(run[k].sentence, segs[run[k].seg].speaker,
                                 replies[k].scores)]

\* tag_sentences: replies[k] is what the embedding model does on the k-th
\* sentence that is not skipped
TagSentences(segs, embedding_model, intent_embeddings, replies) ==
    IF ~intent_embeddings \/ ~embedding_model THEN TagWithKeywords(segs)
    ELSE LET run == RunSentences(segs, 1)
         IN [k \in DOMAIN run |->
               IF replies[k].raises
               THEN KeywordTag(run[k].sentence, segs[run[k].seg].speaker)
               ELSE EmbeddingTag(run[k].sentence, segs[run[k].seg].speaker,
                                 replies[k].scores)]

\* IntentTagger.__init__ with _build_intent_embeddings, and the arguments of
\* one call of tag_sentences
InitTagger ==
    /\ tg_model \in BOOLEAN
    /\ tg_intents \in {b \in BOOLEAN : b => tg_model}
    /\ tg_segments \in TagSegmentLists
    /\ tg_replies \in IF tg_model /\ tg_intents
                      THEN [1..Len(RunSentences(tg_segments, 1)) -> ReplyChoices]
                      ELSE {<<>>}
    /\ tg_pc = "ready"
    /\ tg_tags = <<>>

IdleTag ==
    /\ tg_model = FALSE
    /\ tg_intents = FALSE
    /\ tg_segments = <<>>
    /\ tg_replies = <<>>
    /\ tg_pc = "idle"
    /\ tg_tags = <<>>

\* IntentTagger.tag_sentences
TagSentencesCall ==
    /\ tg_pc = "ready"
    /\ tg_tags' = TagSentences(tg_segments, tg_model, tg_intents, tg_replies)
    /\ tg_pc' = "done"
    /\ UNCHANGED <<tg_model, tg_intents, tg_segments, tg_replies>>
    /\ UNCHANGED <<aggVars, batchVars, extVars, valVars, provVars, calVars, evalVars, jobVars>>

-----------------------------------------------------------------------------
(* Evaluation routes and EvaluationRunner.run_evaluation                   *)
(*                                                                         *)
(* One job.  The handlers and the background tasks run on one event loop:  *)
(* a step runs from one suspension to the next.  run_evaluation suspends   *)
(* while the judge model answers; the re-aggregation task never suspends.  *)
(* An evaluation record is a dict; the keys it may lack are flags.         *)

MaxRequests == 3

REVIEW_COMPONENTS == {"summary", "decisions"}

NoRecord == [status |-> "none"]

\* evaluation_results of run_evaluation before its try block
RunningRecord ==
    [status |-> "running", llm_evaluation |-> FALSE, metrics_evaluation |-> FALSE,
     aggregated |-> FALSE, sources |-> <<>>, human_evaluation |-> FALSE, reviewed |-> {},
     improvement_report |-> FALSE, error |-> FALSE]

\* the sources list of aggregate_evaluations, from the truth of its arguments
EvalSources(llm, human, metrics) ==
    (IF llm THEN <<"llm">> ELSE <<>>)
    \o (IF human THEN <<"human">> ELSE <<>>)
    \o (IF metrics THEN <<"metrics">> ELSE <<>>)

\* what can happen in a run of run_evaluation: whether the judge model is
\* available, whether the LLM evaluation raises, which later step raises,
\* and what the LangSmith client does when there is one
RunSteps == <<"metrics", "aggregate", "report", "save_open", "save_report">>

RunOutcomes ==
    [available : BOOLEAN, llm_raises : BOOLEAN,
     fails : {"none"} \cup {RunSteps[k] : k \in DOMAIN RunSteps},
     langsmith : {"off", "raises"}]

\* a variant of RunEvaluation in which an LLM evaluation that raises ends
\* the run
RunEvaluation_LlmEndsRun(o, disk) ==
    LET llm == o.available /\ ~o.llm_raises
        stopped == o.available /\ o.llm_raises
        Reached(step) ==
            /\ ~stopped
            /\ \/ o.fails = "none"
               \/ \E a, b \in DOMAIN RunSteps :
                     RunSteps[a] = o.fails /\ RunSteps[b] = step /\ b <= a
        Done(step) == Reached(step) /\ o.fails # step
        built == Update(RunningRecord,
                    [llm_evaluation |-> llm,
                     metrics_evaluation |-> Done("metrics"),
                     aggregated |-> Done("aggregate"),
                     sources |-> IF Done("aggregate") THEN EvalSources(llm, FALSE, TRUE)
                                 ELSE <<>>,
                     improvement_report |-> Done("report")])
        final == IF o.fails = "none" /\ ~stopped THEN Update(built, [status |-> "completed"])
                 ELSE Update(built, [status |-> "failed", error |-> TRUE])
    IN [raised |-> FALSE,
        returned |-> final,
        disk |-> IF Done("save_open") THEN built ELSE disk]

\* run_evaluation with human_eval=None: whether an exception leaves it, the
\* record it returns and evaluation_results.json after it; disk is the file
\* before the run.  _save_evaluation_results writes the record as it is
\* when it is called
RunEvaluation(o, disk) ==
    LET llm == o.available /\ ~o.llm_raises
        Reached(step) ==
            \/ o.fails = "none"
            \/ \E a, b \in DOMAIN RunSteps : RunSteps[a] = o.fails /\ RunSteps[b] = step /\ b <= a
        Done(step) == Reached(step) /\ o.fails # step
        built == Update(RunningRecord,
                    [llm_evaluation |-> llm,
                     metrics_evaluation |-> Done("metrics"),
                     aggregated |-> Done("aggregate"),
                     sources |-> IF Done("aggregate") THEN EvalSources(llm, FALSE, TRUE)
                                 ELSE <<>>,
                     improvement_report |-> Done("report")])
        final == IF o.fails = "none" THEN Update(built, [status |-> "completed"])
                 ELSE Update(built, [status |-> "failed", error |-> TRUE])
    IN [raised |-> FALSE,
        returned |-> final,
        disk |-> IF Done("save_open") THEN built ELSE disk]

NoRun == [ran |-> FALSE]

InitEvalRoutes ==
    /\ ev_exists \in BOOLEAN
    /\ ev_memory = NoRecord
    /\ ev_disk = NoRecord
    /\ ev_reviews = {}
    /\ ev_tasks = <<>>
    /\ ev_requests = 0
    /\ ev_last = NoRun
    /\ ev_reply = "none"

IdleEval ==
    /\ ev_exists = FALSE
    /\ ev_memory = NoRecord
    /\ ev_disk = NoRecord
    /\ ev_reviews = {}
    /\ ev_tasks = <<>>
    /\ ev_requests = MaxRequests
    /\ ev_last = NoRun
    /\ ev_reply = "none"

\* list.remove of the k-th task
RemoveAt(q, k) == SubSeq(q, 1, k - 1) \o SubSeq(q, k + 1, Len(q))

\* trigger_evaluation: 404 when the job has no results, a background task
\* otherwise
TriggerEvaluation ==
    /\ ev_requests < MaxRequests
    /\ ev_requests' = ev_requests + 1
    /\ ev_tasks' = IF ev_exists THEN Append(ev_tasks, [kind |-> "evaluation", pc |-> "created"])
                   ELSE ev_tasks
    /\ UNCHANGED <<ev_exists, ev_memory, ev_disk, ev_reviews, ev_last, ev_reply>>
    /\ UNCHANGED <<aggVars, batchVars, extVars, valVars, provVars, calVars, tagVars, jobVars>>

\* the step of _run_evaluation_async that ends run_evaluation and stores
\* its record
FinishEvaluation(k, available) ==
    \E o \in RunOutcomes :
        /\ o.available = available
        /\ ~available => ~o.llm_raises
        /\ LET run == RunEvaluation(o, ev_disk)
           IN /\ ev_disk' = run.disk
              /\ ev_memory' = IF run.raised
                              THEN [status |-> "failed", error |-> TRUE]
                              ELSE run.returned
              /\ ev_last' = [ran |-> TRUE, outcome |-> o, raised |-> run.raised,
                             returned |-> run.returned, disk |-> run.disk]
        /\ ev_tasks' = RemoveAt(ev_tasks, k)

\* _run_evaluation_async up to its first suspension: with a judge model
\* available it suspends in evaluate_all, without one it runs to its end
EvaluationTaskStart ==
    /\ \E k \in DOMAIN ev_tasks :
          /\ ev_tasks[k].kind = "evaluation" /\ ev_tasks[k].pc = "created"
          /\ \E available \in BOOLEAN :
                IF available
                THEN /\ ev_tasks' = [ev_tasks EXCEPT ![k].pc = "awaiting"]
                     /\ UNCHANGED <<ev_memory, ev_disk, ev_last>>
                ELSE FinishEvaluation(k, FALSE)
    /\ UNCHANGED <<ev_exists, ev_reviews, ev_requests, ev_reply>>
    /\ UNCHANGED <<aggVars, batchVars, extVars, valVars, provVars, calVars, tagVars, jobVars>>

\* _run_evaluation_async from the answer of the judge model on
EvaluationTaskResume ==
    /\ \E k \in DOMAIN ev_tasks :
          /\ ev_tasks[k].kind = "evaluation" /\ ev_tasks[k].pc = "awaiting"
          /\ FinishEvaluation(k, TRUE)
    /\ UNCHANGED <<ev_exists, ev_reviews, ev_requests, ev_reply>>
    /\ UNCHANGED <<aggVars, batchVars, extVars, valVars, provVars, calVars, tagVars, jobVars>>

\* submit_human_review: 404 when the job has no results; the review is
\* stored, and when _save_human_review does not raise and an evaluation
\* record exists the re-aggregation task is created
SubmitHumanReview ==
    /\ ev_requests < MaxRequests
    /\ ev_requests' = ev_requests + 1
    /\ IF ~ev_exists THEN UNCHANGED <<ev_reviews, ev_tasks>>
       ELSE \E component \in REVIEW_COMPONENTS, saved \in BOOLEAN :
              /\ ev_reviews' = ev_reviews \cup {component}
              /\ ev_tasks' = IF saved /\ ev_memory # NoRecord
                             THEN Append(ev_tasks, [kind |-> "reaggregation", pc |-> "created"])
                             ELSE ev_tasks
    /\ UNCHANGED <<ev_exists, ev_memory, ev_disk, ev_last, ev_reply>>
    /\ UNCHANGED <<aggVars, batchVars, extVars, valVars, provVars, calVars, tagVars, jobVars>>

\* _reaggregate_with_human_review: the step at which it raises, if any; the
\* keys set before that step stay set
ReaggregationTask ==
    /\ \E k \in DOMAIN ev_tasks :
          /\ ev_tasks[k].kind = "reaggregation"
          /\ ev_tasks' = RemoveAt(ev_tasks, k)
          /\ \E fails \in {"none", "aggregate", "report", "save_open"} :
                LET human == ev_reviews # {}
                    llm == "llm_evaluation" \in DOMAIN ev_memory /\ ev_memory.llm_evaluation
                    metrics == /\ "metrics_evaluation" \in DOMAIN ev_memory
                               /\ ev_memory.metrics_evaluation
                    updated == Update(ev_memory,
                                  [human_evaluation |-> TRUE, reviewed |-> ev_reviews,
                                   aggregated |-> TRUE,
                                   sources |-> EvalSources(llm, human, metrics)])
                    reported == Update(updated, [improvement_report |-> TRUE])
                IN IF fails = "aggregate" \/ ev_memory = NoRecord
                   THEN UNCHANGED <<ev_memory, ev_disk>>
                   ELSE IF fails = "report"
                   THEN ev_memory' = updated /\ UNCHANGED ev_disk
                   ELSE /\ ev_memory' = reported
                        /\ ev_disk' = IF fails = "save_open" THEN ev_disk ELSE reported
    /\ UNCHANGED <<ev_exists, ev_reviews, ev_requests, ev_last, ev_reply>>
    /\ UNCHANGED <<aggVars, batchVars, extVars, valVars, provVars, calVars, tagVars, jobVars>>

\* get_evaluation_status: the record in memory, loaded from the disk when
\* memory has none; 404 when there is none to load
GetEvaluationStatus ==
    /\ ev_requests < MaxRequests
    /\ ev_requests' = ev_requests + 1
    /\ IF ev_memory # NoRecord
       THEN ev_reply' = ev_memory.status /\ UNCHANGED ev_memory
       ELSE IF ev_exists /\ ev_disk # NoRecord
       THEN ev_memory' = ev_disk /\ ev_reply' = ev_disk.status
       ELSE ev_reply' = "404" /\ UNCHANGED ev_memory
    /\ UNCHANGED <<ev_exists, ev_disk, ev_reviews, ev_tasks, ev_last>>
    /\ UNCHANGED <<aggVars, batchVars, extVars, valVars, provVars, calVars, tagVars, jobVars>>

\* the server is started again: the dicts of the module are empty and the
\* tasks are gone; the files stay
RestartEvaluationServer ==
    /\ ev_requests < MaxRequests
    /\ ev_memory # NoRecord \/ ev_reviews # {} \/ ev_tasks # <<>>
    /\ ev_memory' = NoRecord
    /\ ev_reviews' = {}
    /\ ev_tasks' = <<>>
    /\ UNCHANGED <<ev_exists, ev_disk, ev_requests, ev_last, ev_reply>>
    /\ UNCHANGED <<aggVars, batchVars, extVars, valVars, provVars, calVars, tagVars, jobVars>>

-----------------------------------------------------------------------------
(* Job routes: process_transcript, process_job, get_job_status, get_results *)
(*                                                                         *)
(* One job.  A step of process_job runs up to and including its next call  *)
(* of _update_job_status, which updates job_status in memory and then      *)
(* writes status.json; when the write raises, the update in memory stays.  *)

NoStatus == [status |-> "none", progress |-> 0]

InitJobRoutes ==
    /\ jb_strategy \in {"local", "hybrid"}
    /\ jb_pc = "new"
    /\ jb_status = NoStatus
    /\ jb_results = FALSE
    /\ jb_disk_status = NoStatus
    /\ jb_disk_results = FALSE
    /\ jb_updates = <<>>
    /\ jb_persist = TRUE

IdleJob ==
    /\ jb_strategy = "hybrid"
    /\ jb_pc = "idle"
    /\ jb_status = NoStatus
    /\ jb_results = FALSE
    /\ jb_disk_status = NoStatus
    /\ jb_disk_results = FALSE
    /\ jb_updates = <<>>
    /\ jb_persist = TRUE

\* dict.update on job_status[job_id]: a key that updates lacks keeps its value
UpdatedStatus(updates) ==
    [status |-> IF "status" \in DOMAIN updates THEN updates.status
                ELSE IF jb_status = NoStatus THEN "none" ELSE jb_status.status,
     progress |-> IF "progress" \in DOMAIN updates THEN updates.progress
                  ELSE jb_status.progress]

\* _update_job_status(job_id, updates); persisted tells whether
\* storage.save_job_status returns
UpdateJobStatus(updates, persisted) ==
    /\ jb_status' = UpdatedStatus(updates)
    /\ jb_updates' = Append(jb_updates, UpdatedStatus(updates))
    /\ jb_disk_status' = IF persisted THEN UpdatedStatus(updates) ELSE jb_disk_status
    /\ jb_persist' = (jb_persist /\ persisted)

\* process_transcript: the first status, and the background task when the
\* status could be written
ProcessTranscript ==
    /\ jb_pc = "new"
    /\ \E persisted \in BOOLEAN :
          /\ jb_status' = [status |-> "processing", progress |-> 0]
          /\ jb_updates' = <<[status |-> "processing", progress |-> 0]>>
          /\ jb_disk_status' = IF persisted THEN [status |-> "processing", progress |-> 0]
                               ELSE jb_disk_status
          /\ jb_persist' = persisted
          /\ jb_pc' = IF persisted THEN "start" ELSE "refused"
    /\ UNCHANGED <<jb_strategy, jb_results, jb_disk_results>>
    /\ UNCHANGED <<aggVars, batchVars, extVars, valVars, provVars, calVars, tagVars, evalVars>>

\* the stages of process_job before its results are saved: the progress
\* each reports when it is reached and the stage that follows it
Stages ==
    [start |-> [progress |-> 10, next |-> "parse"],
     parse |-> [progress |-> 30, next |-> "preprocess"],
     preprocess |-> [progress |-> 50, next |-> "models"],
     models |-> [progress |-> 60, next |-> "extract"]]

\* lines 195-236: one stage of process_job; working tells whether the work
\* of the stage before this update raises nothing
JobStage ==
    /\ jb_pc \in DOMAIN Stages
    /\ \E working, persisted \in BOOLEAN :
          /\ jb_pc = "start" => working
          /\ IF working
             THEN /\ UpdateJobStatus([progress |-> Stages[jb_pc].progress], persisted)
                  /\ jb_pc' = IF persisted THEN Stages[jb_pc].next ELSE "except"
             ELSE /\ jb_pc' = "except"
                  /\ UNCHANGED <<jb_status, jb_updates, jb_disk_status, jb_persist>>
    /\ UNCHANGED <<jb_strategy, jb_results, jb_disk_results>>
    /\ UNCHANGED <<aggVars, batchVars, extVars, valVars, provVars, calVars, tagVars, evalVars>>

\* lines 238-247 and 278: the extraction, and the update that follows it:
\* 70 when the local strategy gave a quality warning, 80 otherwise
JobExtract ==
    /\ jb_pc = "extract"
    /\ \E working, quality_warning, persisted \in BOOLEAN :
          IF ~working
          THEN /\ jb_pc' = "except"
               /\ UNCHANGED <<jb_status, jb_updates, jb_disk_status, jb_persist>>
          ELSE IF jb_strategy = "local" /\ quality_warning
          THEN /\ UpdateJobStatus([progress |-> 70], persisted)
               /\ jb_pc' = IF persisted THEN "fallback" ELSE "except"
          ELSE /\ UpdateJobStatus([progress |-> 80], persisted)
               /\ jb_pc' = IF persisted THEN "save" ELSE "except"
    /\ UNCHANGED <<jb_strategy, jb_results, jb_disk_results>>
    /\ UNCHANGED <<aggVars, batchVars, extVars, valVars, provVars, calVars, tagVars, evalVars>>

\* lines 250-276: the fallback to the remote API; when it improves the
\* summary it reports 75, and whatever is raised in it is caught
JobFallback ==
    /\ jb_pc = "fallback"
    /\ \E improved, persisted \in BOOLEAN :
          IF improved
          THEN UpdateJobStatus([progress |-> 75], persisted)
          ELSE persisted /\ UNCHANGED <<jb_status, jb_updates, jb_disk_status, jb_persist>>
    /\ jb_pc' = "saving"
    /\ UNCHANGED <<jb_strategy, jb_results, jb_disk_results>>
    /\ UNCHANGED <<aggVars, batchVars, extVars, valVars, provVars, calVars, tagVars, evalVars>>

\* line 278, after the fallback
JobSaving ==
    /\ jb_pc = "saving"
    /\ \E persisted \in BOOLEAN :
          /\ UpdateJobStatus([progress |-> 80], persisted)
          /\ jb_pc' = IF persisted THEN "save" ELSE "except"
    /\ UNCHANGED <<jb_strategy, jb_results, jb_disk_results>>
    /\ UNCHANGED <<aggVars, batchVars, extVars, valVars, provVars, calVars, tagVars, evalVars>>

\* lines 284-300: storage.save_results writes full_report.json first and may
\* raise before it or after it.  When it returns, the results are kept in
\* memory and the job is reported completed with progress 100; when it
\* raises, they are kept in memory and the job is reported completed with
\* progress 95
JobSave ==
    /\ jb_pc = "save"
    /\ \E save \in {"ok", "raises_before_report", "raises_after_report"},
          persisted \in BOOLEAN :
          /\ jb_disk_results' = IF save = "raises_before_report" THEN jb_disk_results ELSE TRUE
          /\ jb_results' = TRUE
          /\ IF save = "ok"
             THEN /\ UpdateJobStatus([progress |-> 100, status |-> "completed"], persisted)
                  /\ jb_pc' = IF persisted THEN "done" ELSE "save_error"
             ELSE /\ UpdateJobStatus([progress |-> 95, status |-> "completed"], persisted)
                  /\ jb_pc' = IF persisted THEN "done" ELSE "except"
    /\ UNCHANGED jb_strategy
    /\ UNCHANGED <<aggVars, batchVars, extVars, valVars, provVars, calVars, tagVars, evalVars>>

\* lines 292-300 after the update of line 287 has raised: the job is
\* reported completed with progress 95
JobSaveError ==
    /\ jb_pc = "save_error"
    /\ \E persisted \in BOOLEAN :
          /\ jb_results' = TRUE
          /\ UpdateJobStatus([progress |-> 95, status |-> "completed"], persisted)
          /\ jb_pc' = IF persisted THEN "done" ELSE "except"
    /\ UNCHANGED <<jb_strategy, jb_disk_results>>
    /\ UNCHANGED <<aggVars, batchVars, extVars, valVars, provVars, calVars, tagVars, evalVars>>

\* lines 302-317: the job is reported failed with progress 0; when that
\* update raises, the exception leaves the task
JobExcept ==
    /\ jb_pc = "except"
    /\ \E persisted \in BOOLEAN :
          /\ UpdateJobStatus([progress |-> 0, status |-> "failed"], persisted)
          /\ jb_pc' = IF persisted THEN "done" ELSE "raised"
    /\ UNCHANGED <<jb_strategy, jb_results, jb_disk_results>>
    /\ UNCHANGED <<aggVars, batchVars, extVars, valVars, provVars, calVars, tagVars, evalVars>>

\* what get_job_status answers: the status in memory, the one of
\* status.json when memory has none, 404 when there is no file either
JobStatusAnswer ==
    IF jb_status # NoStatus THEN jb_status.status
    ELSE IF jb_disk_status # NoStatus THEN jb_disk_status.status
    ELSE "404"

\* what get_results answers: the results in memory, the ones of
\* full_report.json when memory has none, 404 when the file does not exist
ResultsAnswer == IF jb_results \/ jb_disk_results THEN "results" ELSE "404"

\* get_job_status: a status loaded from status.json is kept in memory,
\* with the results when they can be loaded
GetJobStatus ==
    /\ jb_pc # "new"
    /\ IF jb_status = NoStatus /\ jb_disk_status # NoStatus
       THEN /\ jb_status' = jb_disk_status
            /\ jb_results' = (jb_results \/ jb_disk_results)
       ELSE UNCHANGED <<jb_status, jb_results>>
    /\ UNCHANGED <<jb_strategy, jb_pc, jb_disk_status, jb_disk_results, jb_updates, jb_persist>>
    /\ UNCHANGED <<aggVars, batchVars, extVars, valVars, provVars, calVars, tagVars, evalVars>>

\* get_results: results loaded from full_report.json are kept in memory
GetResults ==
    /\ jb_pc # "new"
    /\ jb_results' = (ResultsAnswer = "results")
    /\ UNCHANGED <<jb_strategy, jb_pc, jb_status, jb_disk_status, jb_disk_results, jb_updates,
                   jb_persist>>
    /\ UNCHANGED <<aggVars, batchVars, extVars, valVars, provVars, calVars, tagVars, evalVars>>

\* the server is started again: job_status and job_results are empty and
\* the task is gone; the files stay
RestartJobServer ==
    /\ jb_pc \notin {"new", "stopped"}
    /\ jb_pc' = "stopped"
    /\ jb_status' = NoStatus
    /\ jb_results' = FALSE
    /\ UNCHANGED <<jb_strategy, jb_disk_status, jb_disk_results, jb_updates, jb_persist>>
    /\ UNCHANGED <<aggVars, batchVars, extVars, valVars, provVars, calVars, tagVars, evalVars>>

-----------------------------------------------------------------------------
(* Specifications *)

InitAgg == InitAggInputs /\ IdleBatch /\ IdleExtract /\ IdleVal /\ IdleProv
    /\ IdleCal /\ IdleTag
    /\ IdleEval /\ IdleJob

SpecAgg == InitAgg /\ [][Aggregate]_vars

InitBatch == InitBatchInputs /\ IdleAgg /\ IdleExtract /\ IdleVal /\ IdleProv
    /\ IdleCal /\ IdleTag
    /\ IdleEval /\ IdleJob

NextBatch == BatchCreateTask \/ BatchGather \/ BatchZip \/ BatchSequential

SpecBatch == InitBatch /\ [][NextBatch]_vars

InitExtract == InitExtractInputs /\ IdleAgg /\ IdleBatch /\ IdleVal /\ IdleProv
    /\ IdleCal /\ IdleTag
    /\ IdleEval /\ IdleJob

SpecExtract == InitExtract /\ [][ExtractStructuredData]_vars

InitVal == InitValInputs /\ IdleAgg /\ IdleBatch /\ IdleExtract /\ IdleProv
    /\ IdleCal /\ IdleTag
    /\ IdleEval /\ IdleJob

SpecVal == InitVal /\ [][Validate]_vars

InitProv == InitTracker /\ IdleAgg /\ IdleBatch /\ IdleExtract /\ IdleVal
    /\ IdleCal /\ IdleTag
    /\ IdleEval /\ IdleJob

NextProv == SetSourceSegments \/ Track

SpecProv == InitProv /\ [][NextProv]_vars

InitCal ==
    InitCalibrator /\ IdleAgg /\ IdleBatch /\ IdleExtract /\ IdleVal /\ IdleProv /\ IdleTag
    /\ IdleEval /\ IdleJob

NextCal == CacheSummaryEmbedding \/ Calibrate

SpecCal == InitCal /\ [][NextCal]_vars

InitTag ==
    InitTagger /\ IdleAgg /\ IdleBatch /\ IdleExtract /\ IdleVal /\ IdleProv /\ IdleCal
    /\ IdleEval /\ IdleJob

SpecTag == InitTag /\ [][TagSentencesCall]_vars

InitEval ==
    InitEvalRoutes /\ IdleAgg /\ IdleBatch /\ IdleExtract /\ IdleVal /\ IdleProv /\ IdleCal
    /\ IdleTag /\ IdleJob

NextEval ==
    \/ TriggerEvaluation
    \/ EvaluationTaskStart
    \/ EvaluationTaskResume
    \/ SubmitHumanReview
    \/ ReaggregationTask
    \/ GetEvaluationStatus
    \/ RestartEvaluationServer

SpecEval == InitEval /\ [][NextEval]_vars

InitJob ==
    InitJobRoutes /\ IdleAgg /\ IdleBatch /\ IdleExtract /\ IdleVal /\ IdleProv /\ IdleCal
    /\ IdleTag /\ IdleEval

NextJob ==
    \/ ProcessTranscript
    \/ JobStage
    \/ JobExtract
    \/ JobFallback
    \/ JobSaving
    \/ JobSave
    \/ JobSaveError
    \/ JobExcept
    \/ GetJobStatus
    \/ GetResults
    \/ RestartJobServer

SpecJob == InitJob /\ [][NextJob]_vars

\* the steps of the background task process_job
JobSteps ==
    JobStage \/ JobExtract \/ JobFallback \/ JobSaving \/ JobSave \/ JobSaveError \/ JobExcept

\* a background task that has been started is run to its end unless the
\* server is stopped
SpecJobFair == SpecJob /\ WF_vars(JobSteps)

\* the extractor, the validator, the tracker and the calibrator, each on a
\* run of its own
InitCore == InitExtract \/ InitVal \/ InitProv \/ InitCal

NextCore == ExtractStructuredData \/ Validate \/ NextProv \/ NextCal

SpecCore == InitCore /\ [][NextCore]_vars

-----------------------------------------------------------------------------
(* Claims about EvaluationAggregator, checked under SpecAgg *)

\* the score that source src gives criterion cr of component c in the current
\* arguments, NoScore when it gives none
Reported(src, c, cr) ==
    IF src = "llm"
    THEN (IF llm_eval.given /\ llm_eval.evaluations[c].present
          THEN llm_eval.evaluations[c].scores[cr] ELSE NoScore)
    ELSE IF src = "human"
    THEN (IF human_eval.given /\ human_eval.evaluations[c].present
          THEN human_eval.evaluations[c].scores[cr] ELSE NoScore)
    ELSE IF ~metrics_eval[c].present THEN NoScore
    ELSE IF cr = CritCompleteness /\ metrics_eval[c].completeness # NoScore
    THEN metrics_eval[c].completeness * 10
    ELSE IF cr = CritRouge /\ metrics_eval[c].rouge # NoScore
    THEN metrics_eval[c].rouge * 10
    ELSE NoScore

ReportingSources(c, cr) == {s \in Sources : Reported(s, c, cr) # NoScore}

C7_ExactWeightedMean ==
    \A i \in DOMAIN agg_calls : \A c \in InputComponents : \A cr \in Criteria :
        LET S == ReportingSources(c, cr)
            w == agg_calls[i].weights
            W == SumOver(S, [s \in S |-> w[s]])
            comps == agg_calls[i].result.components
        IN  (S # {} /\ W > 0) =>
              /\ c \in DOMAIN comps
              /\ cr \in DOMAIN comps[c].scores
              /\ comps[c].scores[cr] * W = SumOver(S, [s \in S |-> Reported(s, c, cr) * w[s]])

\* C7 amended: when the weights of the sources that reported a criterion sum to
\* more than 0, its aggregated score is sum(score * weight) / sum(weight) over
\* exactly those sources, rounded to two decimals; otherwise the criterion has
\* no aggregated score.
C7_RoundedWeightedMean ==
    \A i \in DOMAIN agg_calls : \A c \in InputComponents : \A cr \in Criteria :
        LET S == ReportingSources(c, cr)
            w == agg_calls[i].weights
            W == SumOver(S, [s \in S |-> w[s]])
            N == SumOver(S, [s \in S |-> Reported(s, c, cr) * w[s]])
            comps == agg_calls[i].result.components
        IN  IF S # {} /\ W > 0
            THEN /\ c \in DOMAIN comps
                 /\ cr \in DOMAIN comps[c].scores
                 /\ comps[c].scores[cr] = RoundHalfEven(N, W)
            ELSE c \in DOMAIN comps => cr \notin DOMAIN comps[c].scores

\* a criterion reported by two of the three sources whose weighted mean is not
\* a whole number of hundredths
C7_Witness ==
    \E i \in DOMAIN agg_calls : \E c \in InputComponents : \E cr \in Criteria :
        LET S == ReportingSources(c, cr)
            w == agg_calls[i].weights
            W == SumOver(S, [s \in S |-> w[s]])
            N == SumOver(S, [s \in S |-> Reported(s, c, cr) * w[s]])
        IN  /\ Cardinality(S) = 2
            /\ W > 0
            /\ N % W # 0
            /\ \A s \in Sources : w[s] > 0

\* C8 as stated: without a weights argument and without a human evaluation the
\* weights are llm 0.5, metrics 0.2, human 0; with a human evaluation they are
\* llm 0.4, human 0.4, metrics 0.2.
C8_HumanWeightZero ==
    \A i \in DOMAIN agg_calls :
        ~weights_arg.given =>
            IF Truthy(human_eval)
            THEN agg_calls[i].weights = ("llm" :> 4) @@ ("human" :> 4) @@ ("metrics" :> 2)
            ELSE agg_calls[i].weights = ("llm" :> 5) @@ ("human" :> 0) @@ ("metrics" :> 2)

\* C8 amended: without a weights argument and without a human evaluation the
\* weights are llm 0.5, human 0.3, metrics 0.2 (no human score exists then, so
\* the human weight is never applied); with a human evaluation they are
\* llm 0.4, human 0.4, metrics 0.2.
C8_DefaultWeights ==
    \A i \in DOMAIN agg_calls :
        ~weights_arg.given =>
            /\ IF Truthy(human_eval)
               THEN agg_calls[i].weights = ("llm" :> 4) @@ ("human" :> 4) @@ ("metrics" :> 2)
               ELSE agg_calls[i].weights = ("llm" :> 5) @@ ("human" :> 3) @@ ("metrics" :> 2)
            /\ ~Truthy(human_eval) =>
                 \A c \in InputComponents : \A cr \in Criteria : Reported("human", c, cr) = NoScore

C8_Witness ==
    /\ agg_calls # <<>>
    /\ ~weights_arg.given
    /\ ~Truthy(human_eval)
    /\ Truthy(llm_eval)
    /\ DOMAIN agg_calls[1].result.components # {}

\* the label that C9 describes, from the current arguments
C9_Label ==
    IF ~llm_eval.given \/ ~human_eval.given THEN "low"
    ELSE LET both == {c \in InputComponents :
                         llm_eval.evaluations[c].present /\ human_eval.evaluations[c].present}
             \* 1 - |llm_overall - human_overall| / 10, in thousandths
             agreement == [c \in both |->
                             1000 - Abs(llm_eval.evaluations[c].overall_score
                                        - human_eval.evaluations[c].overall_score)]
             total == SumOver(both, agreement)
         IN  IF both = {} THEN "low"
             ELSE IF total >= 800 * Cardinality(both) THEN "high"
             ELSE IF total >= 600 * Cardinality(both) THEN "medium"
             ELSE "low"

\* C9: the confidence label is 'low' when the LLM or the human evaluation is
\* missing; otherwise the agreement 1 - |llm_overall - human_overall|/10 is
\* averaged over the components present in both, and the label is 'high' from
\* 0.8, 'medium' from 0.6, else 'low' ('low' too when no component is shared).
C9_ConfidenceLabel ==
    \A i \in DOMAIN agg_calls : agg_calls[i].result.confidence = C9_Label

\* both sources given, every input component shared, average agreement exactly 0.8
C9_Witness ==
    /\ agg_calls # <<>>
    /\ llm_eval.given /\ human_eval.given
    /\ \A c \in InputComponents :
          /\ llm_eval.evaluations[c].present /\ human_eval.evaluations[c].present
          /\ Abs(llm_eval.evaluations[c].overall_score
                 - human_eval.evaluations[c].overall_score) = 200
    /\ agg_calls[1].result.confidence = "high"

\* overall_score of component c from its metrics alone, under weights w
C10_MetricsOverall(c, w) ==
    IF w["metrics"] > 0 /\ c \in DOMAIN schema
    THEN RoundHalfEven(
            (IF metrics_eval[c].completeness # NoScore /\ CritCompleteness \in DOMAIN schema[c]
             THEN metrics_eval[c].completeness * 10 * schema[c][CritCompleteness] ELSE 0)
          + (IF metrics_eval[c].rouge # NoScore /\ CritRouge \in DOMAIN schema[c]
             THEN metrics_eval[c].rouge * 10 * schema[c][CritRouge] ELSE 0), 100)
    ELSE 0

\* C10: with llm_eval and human_eval absent and a non-empty metrics_eval the
\* result has confidence 'low', sources ['metrics'], and an aggregate_score
\* that is the mean of the overall scores computed from the metrics alone.
C10_MetricsOnly ==
    \A i \in DOMAIN agg_calls :
        (~Truthy(llm_eval) /\ ~Truthy(human_eval) /\ MetricsTruthy(metrics_eval)) =>
            LET scored == {c \in InputComponents :
                              /\ metrics_eval[c].present
                              /\ (metrics_eval[c].completeness # NoScore
                                  \/ metrics_eval[c].rouge # NoScore)}
                r == agg_calls[i].result
            IN  /\ r.confidence = "low"
                /\ r.sources = <<"metrics">>
                /\ DOMAIN r.components = scored
                /\ \A c \in scored : \A k \in DOMAIN r.components[c].raw_scores : k[1] = "metrics"
                /\ r.aggregate_score =
                     IF scored = {} THEN 0
                     ELSE RoundHalfEven(
                            SumOver(scored, [c \in scored |-> C10_MetricsOverall(c, agg_calls[i].weights)]),
                            Cardinality(scored))

C10_Witness ==
    /\ agg_calls # <<>>
    /\ ~Truthy(llm_eval) /\ ~Truthy(human_eval) /\ MetricsTruthy(metrics_eval)
    /\ agg_calls[1].result.aggregate_score > 0

\* the rubric weight of criterion cr for component c, 0 where the rubric has none
C11_RubricWeight(c, cr) ==
    IF c \in DOMAIN schema /\ cr \in DOMAIN schema[c] THEN schema[c][cr] ELSE 0

\* the sum of score * rubric weight over the aggregated criterion scores of
\* component c of result r, in ten-thousandths
C11_WeightedSum(r, c) ==
    LET sc == r.components[c].scores
    IN  SumOver(DOMAIN sc, [cr \in DOMAIN sc |-> sc[cr] * C11_RubricWeight(c, cr)])

\* C11 as stated: every component's overall_score is the sum of score * rubric
\* weight over its aggregated criterion scores, and aggregate_score is the
\* arithmetic mean of the overall scores of the components of the output.
C11_ExactOverallAndMean ==
    \A i \in DOMAIN agg_calls :
        LET r == agg_calls[i].result
            cs == DOMAIN r.components
        IN  /\ \A c \in cs : r.components[c].overall_score * 100 = C11_WeightedSum(r, c)
            /\ cs # {} =>
                  r.aggregate_score * Cardinality(cs)
                    = SumOver(cs, [c \in cs |-> r.components[c].overall_score])

\* C11 amended: every component's overall_score is that sum rounded to two
\* decimals (a criterion or component without a rubric weight adds nothing),
\* and aggregate_score is the mean of the overall scores of the components
\* of the output rounded to two decimals.
C11_RoundedOverallAndMean ==
    \A i \in DOMAIN agg_calls :
        LET r == agg_calls[i].result
            cs == DOMAIN r.components
        IN  /\ \A c \in cs :
                  r.components[c].overall_score = RoundHalfEven(C11_WeightedSum(r, c), 100)
            /\ cs # {} =>
                  r.aggregate_score
                    = RoundHalfEven(SumOver(cs, [c \in cs |-> r.components[c].overall_score]),
                                    Cardinality(cs))

\* two components in the output, one with a criterion that the rubric does
\* not weigh and one whose weighted sum is not a whole number of hundredths,
\* and a mean that is not a whole number of hundredths either
C11_Witness ==
    \E i \in DOMAIN agg_calls :
        LET r == agg_calls[i].result
            cs == DOMAIN r.components
        IN  /\ Cardinality(cs) >= 2
            /\ \E c \in cs : C11_WeightedSum(r, c) % 100 # 0
            /\ \E c \in cs : \E cr \in DOMAIN r.components[c].scores :
                    /\ C11_RubricWeight(c, cr) = 0
                    /\ r.components[c].scores[cr] > 0
            /\ SumOver(cs, [c \in cs |-> r.components[c].overall_score]) % Cardinality(cs) # 0

-----------------------------------------------------------------------------
(* Claims about run_batch_evaluation, checked under SpecBatch *)

\* C3: when run_batch_evaluation returns, every job that failed is recorded as
\* failed under its own id and every other job id maps to the result of its
\* own evaluation.
C3_OwnEntryPerJob ==
    b_pc = "done" =>
        \A k \in 1..Len(job_ids) :
            /\ job_ids[k] \in DOMAIN results
            /\ IF job_ids[k] \in load_fails
               THEN results[job_ids[k]] = FailedEntry
               ELSE results[job_ids[k]] = RunEvaluationResult(job_ids[k])

-----------------------------------------------------------------------------
(* Claims about the extractors, checked under SpecExtract *)

\* C1: when the adapter offers structured generation and its call fails
\* (exception, status other than 200, empty answer, answer that is no JSON),
\* each extractor returns what its pattern path gives on the same segments.
C1_FallbackToPatternPath ==
    (ex_pc = "done" /\ has_structured) =>
        \A t \in ItemTypes :
            llm_reply[t] \in FailureKinds => ex_raw[t] = PatternPath(t, segments)

\* C4: every item extract_structured_data returns has a confidence between
\* 0.4 and 0.95.
C4_ConfidenceInRange ==
    ex_pc = "done" =>
        \A t \in ItemTypes : \A k \in 1..Len(ex_out[t]) :
            ex_out[t][k].confidence >= 40 /\ ex_out[t][k].confidence <= 95

-----------------------------------------------------------------------------
(* Claims on the validator (SpecVal) *)

\* C5: for every validated item, is_valid is true exactly when
\* source_support > 0.3 and no issue has severity 'high', on the final
\* validation dict, after validate_decisions and validate_actions merged
\* their type-specific results into it.
C5_IsValidEquivalence ==
    val_pc = "done" =>
        \A k \in DOMAIN val_out :
            LET v == val_out[k].validation
            IN v.is_valid <=>
                  /\ FracGt(v.source_support, Frac(3, 10))
                  /\ \A i \in DOMAIN v.issues : v.issues[i].severity # "high"

\* a valid action with merged owner validation, next to an item that is
\* supported by the source and not valid because of a contradiction
C5_Witness ==
    /\ val_pc = "done"
    /\ val_type = "action"
    /\ \E k \in DOMAIN val_out :
          /\ val_out[k].validation.is_valid
          /\ "owner_validation" \in DOMAIN val_out[k].validation
          /\ ~val_out[k].validation.owner_validation.is_valid
    /\ \E k \in DOMAIN val_out :
          /\ ~val_out[k].validation.is_valid
          /\ FracGt(val_out[k].validation.source_support, Frac(3, 10))

\* C15: with no embedding model, every item whose text shares no lower-cased
\* whitespace-delimited token with the source segments is given
\* source_support 0.0 and is_valid False.
C15_NoSharedTokenNoSupport ==
    (val_pc = "done" /\ val_embed = "none") =>
        \A k \in DOMAIN val_out :
            LET item_text == IF val_type = "decision" THEN val_items[k].decision
                             ELSE IF val_type = "action" THEN val_items[k].action
                             ELSE val_items[k].risk
                v == val_out[k].validation
            IN (WordSet(LowerText(item_text)) \cap WordSet(SourceText(val_segments, 1)) = {}) =>
                  /\ v.source_support.num = 0
                  /\ ~v.is_valid

-----------------------------------------------------------------------------
(* Claims on the provenance tracker (SpecProv) *)

\* C6: every provenance record produced by the tracker, on the semantic path
\* and on the keyword path, has source_segment_ids, source_text and
\* similarity_scores of equal length, at most 3 entries, and
\* similarity_scores in non-increasing order.
C6_ParallelSortedTopThree ==
    pv_pc = "tracked" =>
        LET p == pv_out.provenance
        IN /\ Len(p.source_segment_ids) = Len(p.similarity_scores)
           /\ Len(p.source_text) = Len(p.similarity_scores)
           /\ Len(p.similarity_scores) <= 3
           /\ \A k \in 1..(Len(p.similarity_scores) - 1) :
                 ~FracGt(p.similarity_scores[k + 1], p.similarity_scores[k])

\* a record of the keyword path: more than three segments, a later one
\* more similar than an earlier one, and three entries of which the first
\* is larger than the last
C6_Witness ==
    /\ pv_pc = "tracked"
    /\ ~pv_model
    /\ Len(pv_segments) > 3
    /\ Len(pv_out.provenance.similarity_scores) = 3
    /\ pv_out.provenance.source_segment_ids[1] > pv_out.provenance.source_segment_ids[3]
    /\ FracGt(pv_out.provenance.similarity_scores[1], pv_out.provenance.similarity_scores[3])

\* the text of a tracked item
C14_Text ==
    IF "decision" \in DOMAIN pv_out THEN pv_out.decision
    ELSE IF "action" \in DOMAIN pv_out THEN pv_out.action ELSE pv_out.risk

\* |T \cap S| and |T \cup S| for the lower-cased whitespace-token sets T of
\* the tracked text and S of segment i
C14_Jaccard(i) ==
    LET T == WordSet(LowerText(C14_Text))
        S == WordSet(LowerText(pv_segments[i].text))
    IN Frac(Cardinality(T \cap S), Cardinality(T \cup S))

\* C14: without an embedding model, the similarity recorded for a segment is
\* |T \cap S| / |T \cup S| over the lower-cased whitespace-token sets of the
\* text and of the segment, every recorded similarity is > 0.1, and the
\* confidence of the record is the largest recorded similarity, 0 when none
\* is recorded.
C14_JaccardKeywordSimilarity ==
    (pv_pc = "tracked" /\ ~pv_model) =>
        LET ids == pv_record.source_segment_ids
            scores == pv_record.similarity_scores
        IN /\ \A k \in DOMAIN scores :
                 /\ scores[k].num * C14_Jaccard(ids[k] + 1).den
                      = C14_Jaccard(ids[k] + 1).num * scores[k].den
                 /\ FracGt(scores[k], Frac(1, 10))
           /\ IF scores = <<>> THEN pv_record.confidence.num = 0
              ELSE /\ \E k \in DOMAIN scores : pv_record.confidence = scores[k]
                   /\ \A k \in DOMAIN scores : ~FracGt(scores[k], pv_record.confidence)

\* two segments recorded with different similarities, neither 1, next to a
\* segment that shares a word with the text and is not recorded
C14_Witness ==
    /\ pv_pc = "tracked"
    /\ ~pv_model
    /\ Len(pv_record.similarity_scores) >= 2
    /\ FracGt(pv_record.similarity_scores[1], pv_record.similarity_scores[2])
    /\ FracGt(Frac(1, 1), pv_record.similarity_scores[1])
    /\ \E i \in DOMAIN pv_segments :
          /\ C14_Jaccard(i).num > 0
          /\ \A k \in DOMAIN pv_record.source_segment_ids :
                pv_record.source_segment_ids[k] # i - 1

-----------------------------------------------------------------------------
(* Claims on confidence calibration (SpecCal) *)

\* 0.1 for a date pattern, 0.1 for a count or metric pattern and 0.05 for a
\* before/after comparison, in hundredths
C12_Boost(text) ==
    (IF HasDatePattern(text) THEN 10 ELSE 0)
    + (IF HasNumberPattern(text) THEN 10 ELSE 0)
    + (IF HasComparisonPattern(text) THEN 5 ELSE 0)

\* the similarity step
C12_SimilarityStep(similarity) ==
    IF similarity > 70 THEN 90 ELSE IF similarity > 50 THEN 70
    ELSE IF similarity > 30 THEN 50 ELSE 40

\* the keyword step
C12_KeywordStep(text) ==
    IF HasAnyKeyword(text, {<<"will">>, <<"decided">>, <<"agreed">>, <<"must">>,
                            <<"approved">>, <<"finalized">>}) THEN 90
    ELSE IF HasAnyKeyword(text, {<<"should">>, <<"might">>, <<"could">>, <<"consider">>,
                                 <<"propose">>}) THEN 70
    ELSE 50

\* C12 as stated: the calibrated confidence is min(base + boost, 0.95), where
\* base is the similarity step whenever an embedding model and a cached
\* summary embedding exist and the keyword step otherwise; it lies in
\* [0.4, 0.95].
C12_StepPlusBoost ==
    \A k \in DOMAIN cal_calls :
        LET c == cal_calls[k]
            base == IF c.embedding_model /\ c.summary_embedding
                    THEN C12_SimilarityStep(c.similarity)
                    ELSE C12_KeywordStep(c.text)
        IN /\ c.confidence = Min(base + C12_Boost(c.text), 95)
           /\ c.confidence >= 40
           /\ c.confidence <= 95

\* C12 amended: the calibrated confidence is min(base + boost, 0.95), where
\* base is the similarity step when an embedding model and a cached summary
\* embedding exist and the model returns the embedding of the text, and the
\* keyword step otherwise, also when the model raises; it lies in
\* [0.4, 0.95].
C12_StepPlusBoostUnlessRaised ==
    \A k \in DOMAIN cal_calls :
        LET c == cal_calls[k]
            base == IF c.embedding_model /\ c.summary_embedding /\ ~c.raises
                    THEN C12_SimilarityStep(c.similarity)
                    ELSE C12_KeywordStep(c.text)
        IN /\ c.confidence = Min(base + C12_Boost(c.text), 95)
           /\ c.confidence >= 40
           /\ c.confidence <= 95

\* a call in which the model raises on a text of explicit vocabulary, after
\* a call on the similarity path that the cap cuts
C12_Witness ==
    /\ Len(cal_calls) = 2
    /\ cal_calls[1].embedding_model /\ cal_calls[1].summary_embedding
    /\ ~cal_calls[1].raises
    /\ C12_SimilarityStep(cal_calls[1].similarity) + C12_Boost(cal_calls[1].text) > 95
    /\ cal_calls[2].embedding_model /\ cal_calls[2].summary_embedding
    /\ cal_calls[2].raises
    /\ C12_KeywordStep(cal_calls[2].text) = 90
    /\ C12_SimilarityStep(cal_calls[2].similarity) = 40

\* the base signal of a call: the similarity bucket or the keyword class
C13_Base(c) ==
    IF c.embedding_model /\ c.summary_embedding /\ ~c.raises
    THEN <<"similarity", C12_SimilarityStep(c.similarity)>>
    ELSE <<"keyword", C12_KeywordStep(c.text)>>

\* the patterns detected in a text
C13_Patterns(text) ==
    (IF HasDatePattern(text) THEN {"date"} ELSE {})
    \cup (IF HasNumberPattern(text) THEN {"number"} ELSE {})
    \cup (IF HasComparisonPattern(text) THEN {"comparison"} ELSE {})

\* C13: of two calls with the same base signal, the one whose text has all
\* the patterns of the other, and maybe more, has a confidence that is not
\* lower.
C13_MonotoneInPatterns ==
    \A i, j \in DOMAIN cal_calls :
        (/\ C13_Base(cal_calls[i]) = C13_Base(cal_calls[j])
         /\ C13_Patterns(cal_calls[i].text) \subseteq C13_Patterns(cal_calls[j].text))
        => cal_calls[i].confidence <= cal_calls[j].confidence

\* the same keyword class, a date in the first text, a date and a comparison
\* in the second, and a higher confidence for the second
C13_Witness ==
    /\ Len(cal_calls) = 2
    /\ C13_Base(cal_calls[1]) = C13_Base(cal_calls[2])
    /\ C13_Base(cal_calls[1])[1] = "keyword"
    /\ C13_Patterns(cal_calls[1].text) = {"date"}
    /\ C13_Patterns(cal_calls[2].text) = {"date", "comparison"}
    /\ cal_calls[1].confidence < cal_calls[2].confidence

-----------------------------------------------------------------------------
(* Claims on the intent tagger (SpecTag) *)

\* the call takes the embedding path
C16_EmbeddingPath == tg_model /\ tg_intents

\* the k-th tag was made from the similarities of its sentence
C16_ByScores(k) == C16_EmbeddingPath /\ ~tg_replies[k].raises

\* the intents whose similarity to the k-th sentence is above 0.6
C16_Qualifying(k) ==
    {INTENTS[h] : h \in {x \in DOMAIN INTENTS : tg_replies[k].scores[INTENTS[x]] > 60}}

\* C16: every tag returned by tag_sentences has a non-empty intent list, on
\* the embedding path, on the error path of one sentence and on the keyword
\* path, and a sentence that matches no intent is labelled exactly
\* ['discussion'].
C16_IntentNeverEmpty ==
    tg_pc = "done" =>
        \A k \in DOMAIN tg_tags :
            /\ tg_tags[k].intent # <<>>
            /\ (/\ TagSentenceWithKeywords(tg_tags[k].sentence) = NoIntent
                /\ C16_ByScores(k) => C16_Qualifying(k) = {})
               => tg_tags[k].intent = <<"discussion">>

\* three tags of one call on the embedding path: the model raises on the
\* first sentence, no intent is above 0.6 for the second, neither has a
\* keyword, and the third is tagged with two intents
C16_Witness ==
    /\ tg_pc = "done"
    /\ C16_EmbeddingPath
    /\ Len(tg_tags) = 3
    /\ tg_replies[1].raises
    /\ ~tg_replies[2].raises /\ C16_Qualifying(2) = {}
    /\ TagSentenceWithKeywords(tg_tags[1].sentence) = NoIntent
    /\ TagSentenceWithKeywords(tg_tags[2].sentence) = NoIntent
    /\ Len(tg_tags[3].intent) = 2

\* C17: on the embedding path, when some intent has similarity > 0.6 the
\* confidence of the tag is the largest similarity among the qualifying
\* intents, and the confidence is 0.4 only when no intent qualifies and the
\* keyword rule fails too, the tag being ['discussion'].
C17_ConfidenceIsMaxQualifying ==
    tg_pc = "done" =>
        \A k \in DOMAIN tg_tags :
            C16_ByScores(k) =>
                LET q == C16_Qualifying(k)
                IN /\ q # {} =>
                        /\ \E i \in q : tg_tags[k].confidence = tg_replies[k].scores[i]
                        /\ \A i \in q : tg_replies[k].scores[i] <= tg_tags[k].confidence
                   /\ tg_tags[k].confidence = 40 =>
                        /\ q = {}
                        /\ TagSentenceWithKeywords(tg_tags[k].sentence) = NoIntent
                        /\ tg_tags[k].intent = <<"discussion">>

\* C18: on the embedding path a tag is returned for every sentence that is
\* not skipped, in the order of the sentences; the tag of a sentence on
\* which the embedding model raises is the one of the keyword rule, and the
\* tag of every other sentence is made from its similarities, whatever the
\* model did on the sentences before it.
C18_ErrorStaysWithItsSentence ==
    (tg_pc = "done" /\ C16_EmbeddingPath) =>
        LET run == RunSentences(tg_segments, 1)
        IN /\ Len(tg_tags) = Len(run)
           /\ \A k \in DOMAIN tg_tags :
                 /\ tg_tags[k].sentence = run[k].sentence
                 /\ tg_tags[k].speaker = tg_segments[run[k].seg].speaker
                 /\ IF tg_replies[k].raises
                    THEN LET kw == TagSentenceWithKeywords(run[k].sentence)
                         IN /\ tg_tags[k].intent
                                 = IF kw = NoIntent THEN <<"discussion">> ELSE <<kw>>
                            /\ tg_tags[k].confidence = IF kw = NoIntent THEN 40 ELSE 60
                    ELSE C16_Qualifying(k) # {} =>
                            {tg_tags[k].intent[h] : h \in DOMAIN tg_tags[k].intent}
                              = C16_Qualifying(k)

\* three sentences of two segments; the model raises on the second only,
\* and the first and the third get intents that the keyword rule would not
\* give them
C18_Witness ==
    /\ tg_pc = "done"
    /\ C16_EmbeddingPath
    /\ Len(tg_tags) = 3
    /\ Len(tg_segments) = 2
    /\ ~tg_replies[1].raises /\ tg_replies[2].raises /\ ~tg_replies[3].raises
    /\ \A k \in {1, 3} :
          /\ C16_Qualifying(k) # {}
          /\ TagSentenceWithKeywords(tg_tags[k].sentence) \notin C16_Qualifying(k)

-----------------------------------------------------------------------------
(* Claims on the pattern paths (SpecExtract) *)

\* the three extractors took their pattern paths
C19_OnPatternPath == ex_pc = "done" /\ ~has_structured

\* the matches of template t in segment i
C19_Matches(i, t) == TemplateCandidates(segments[i], ActionTemplates[t])

\* a match is named by its segment, its template and its rank among the
\* matches of the template in the segment
C19_Keys ==
    {key \in (DOMAIN segments) \X (DOMAIN ActionTemplates) \X (1..8) :
        key[3] <= Len(C19_Matches(key[1], key[2]))}

C19_Text(key) == C19_Matches(key[1], key[2])[key[3]].action_text

\* the order of the loops
C19_Before(a, b) ==
    \/ a[1] < b[1]
    \/ a[1] = b[1] /\ a[2] < b[2]
    \/ a[1] = b[1] /\ a[2] = b[2] /\ a[3] < b[3]

\* the matches that are long enough and whose text no match before has
C19_Kept ==
    {key \in C19_Keys :
        /\ CharLen(C19_Text(key)) >= MIN_ACTION_LEN
        /\ \A o \in C19_Keys :
              C19_Before(o, key) => LowerText(C19_Text(o)) # LowerText(C19_Text(key))}

\* the first match of the first template that matches segment i
C19_FirstMatch(i) ==
    LET T == {t \in DOMAIN ActionTemplates : Len(C19_Matches(i, t)) > 0}
    IN IF T = {} THEN <<>>
       ELSE <<C19_Matches(i, CHOOSE t \in T : \A u \in T : t <= u)[1]>>

\* C19 as stated: on the action pattern path the first template that
\* matches a segment decides its action item, and a segment yields one
\* action item at most.
C19_FirstTemplateDecides ==
    C19_OnPatternPath =>
        LET items == ex_raw["action_items"]
        IN /\ Len(items) <= Len(segments)
           /\ \A k \in DOMAIN items :
                 \E i \in DOMAIN segments :
                    /\ C19_FirstMatch(i) # <<>>
                    /\ items[k].action = C19_FirstMatch(i)[1].action_text

\* C19: on the action pattern path every template is tried on every
\* segment, in the fixed order, and every match of every template gives an
\* action item unless its text is shorter than 10 characters or is the
\* text of a match before it: the action items are the kept matches in the
\* order of the segments, then of the templates, then of the matches, so one
\* segment can yield several action items.
C19_EveryTemplateEveryMatch ==
    C19_OnPatternPath =>
        LET items == ex_raw["action_items"]
        IN /\ Len(items) = Cardinality(C19_Kept)
           /\ \A key \in C19_Kept :
                 LET rank == Cardinality({o \in C19_Kept : C19_Before(o, key)}) + 1
                 IN /\ rank \in DOMAIN items
                    /\ items[rank].action = C19_Text(key)

\* one segment, two action items, from two templates
C19_Witness ==
    /\ C19_OnPatternPath
    /\ Len(segments) = 1
    /\ Len(ex_raw["action_items"]) = 2
    /\ \E a, b \in C19_Kept : a[2] # b[2]

\* the number of the items of a list whose text is t
C20_Count(items, field, t) == Cardinality({k \in DOMAIN items : items[k][field] = t})

\* the decision a segment with a decision keyword gives in its context
C20_Decision(i) ==
    ExtractDecisionFromContext(segments[i],
        SubSeq(segments, Max(1, i - 2), Min(Len(segments), i + 2)), i - 1).decision

C20_DecisionSegments ==
    {i \in DOMAIN segments : HasAnyKeyword(segments[i].text, DecisionKeywords)}

\* the risk description a segment gives, NoText when it gives none
C20_Risk(i) ==
    IF HasAnyKeyword(segments[i].text, RiskIndicators)
    THEN ExtractRiskDescription(segments[i].text) ELSE NoText

C20_RiskSegments == {i \in DOMAIN segments : C20_Risk(i) # NoText}

C20_LongKeys == {key \in C19_Keys : CharLen(C19_Text(key)) >= MIN_ACTION_LEN}

\* C20 as stated: no pattern path removes a duplicate: when two segments
\* give candidates of the same text, both are in the output of the
\* decision, the action and the risk pattern path.
C20_NoDeduplication ==
    C19_OnPatternPath =>
        /\ \A i, j \in C20_DecisionSegments :
              (i < j /\ C20_Decision(i) = C20_Decision(j))
                 => C20_Count(ex_raw["decisions"], "decision", C20_Decision(i)) >= 2
        /\ \A a, b \in C20_LongKeys :
              (a[1] < b[1] /\ C19_Text(a) = C19_Text(b))
                 => C20_Count(ex_raw["action_items"], "action", C19_Text(a)) >= 2
        /\ \A i, j \in C20_RiskSegments :
              (i < j /\ C20_Risk(i) = C20_Risk(j))
                 => C20_Count(ex_raw["risks"], "risk", C20_Risk(i)) >= 2

\* C20: the decision pattern path removes no duplicate: every segment with
\* a decision keyword has its decision in the output, in the order of the
\* segments, equal texts included.  The action and the risk pattern path
\* keep a set of the lower-cased texts they have seen: no two items of
\* their output have the same lower-cased text, and every candidate that is
\* long enough has its lower-cased text in the output once.
C20_OnlyDecisionsKeepDuplicates ==
    C19_OnPatternPath =>
        /\ Len(ex_raw["decisions"]) = Cardinality(C20_DecisionSegments)
        /\ \A i \in C20_DecisionSegments :
              ex_raw["decisions"][Cardinality({j \in C20_DecisionSegments : j <= i})].decision
                 = C20_Decision(i)
        /\ \A key \in C20_LongKeys :
              Cardinality({k \in DOMAIN ex_raw["action_items"] :
                  LowerText(ex_raw["action_items"][k].action) = LowerText(C19_Text(key))}) = 1
        /\ \A i \in C20_RiskSegments :
              Cardinality({k \in DOMAIN ex_raw["risks"] :
                  LowerText(ex_raw["risks"][k].risk) = LowerText(C20_Risk(i))}) = 1

\* two segments give the same action text and the output has it once
C20_Witness ==
    /\ C19_OnPatternPath
    /\ \E a, b \in C20_LongKeys :
          /\ a[1] < b[1]
          /\ C19_Text(a) = C19_Text(b)
          /\ C20_Count(ex_raw["action_items"], "action", C19_Text(a)) = 1

-----------------------------------------------------------------------------
(* Claims on the weights argument (SpecAgg) *)

\* C28: when the caller passes a weights argument, those weights are the
\* ones of the weighted mean of every criterion, with or without a human
\* evaluation.
C28_ExplicitWeightsUsed ==
    \A i \in DOMAIN agg_calls :
        weights_arg.given =>
            /\ agg_calls[i].weights = weights_arg.w
            /\ \A c \in InputComponents : \A cr \in Criteria :
                 LET S == ReportingSources(c, cr)
                     W == SumOver(S, [s \in S |-> weights_arg.w[s]])
                     N == SumOver(S, [s \in S |-> Reported(s, c, cr) * weights_arg.w[s]])
                     comps == agg_calls[i].result.components
                 IN  (S # {} /\ W > 0) =>
                       /\ c \in DOMAIN comps
                       /\ cr \in DOMAIN comps[c].scores
                       /\ comps[c].scores[cr] = RoundHalfEven(N, W)

-----------------------------------------------------------------------------
(* Claims on the segment list of the tracker (SpecProv) *)

\* the text the track_* call was given
C29_Text ==
    IF "decision" \in DOMAIN pv_out THEN pv_out.decision
    ELSE IF "action" \in DOMAIN pv_out THEN pv_out.action
    ELSE pv_out.risk

\* the embeddings of the current segments
C29_CurrentEmbeddings == [i \in DOMAIN pv_segments |-> Encode(pv_segments[i].text)]

\* the records the current segments alone can give
C29_CurrentRecords ==
    LET keyword == FindKeywordProvenance(C29_Text, pv_segments, "llm")
    IN {keyword}
         \cup FindSemanticProvenance(C29_Text, pv_segments, C29_CurrentEmbeddings, "llm",
                                     TRUE, keyword)

\* C29: after any sequence of set_source_segments calls and a track_* call,
\* every id of the record is an index of the current segment list and the
\* source text at the same place is the text of that segment; the record
\* is one that the current segments give, by their own embeddings or by
\* their words, never one made from the embeddings of an earlier list.
C29_RecordOfCurrentSegments ==
    pv_pc = "tracked" =>
        /\ Len(pv_record.source_text) = Len(pv_record.source_segment_ids)
        /\ \A k \in DOMAIN pv_record.source_segment_ids :
              /\ pv_record.source_segment_ids[k] + 1 \in DOMAIN pv_segments
              /\ pv_record.source_text[k]
                   = pv_segments[pv_record.source_segment_ids[k] + 1].text
        /\ pv_out.provenance.source_segment_ids = pv_record.source_segment_ids
        /\ pv_out.provenance.source_text = pv_record.source_text
        /\ pv_segments # <<>> => pv_record \in C29_CurrentRecords

\* the tracker still holds the embeddings of an earlier list, which differ
\* from those of the current segments, and the record has sources
C29_Witness ==
    /\ pv_pc = "tracked"
    /\ pv_embeddings.present
    /\ pv_embeddings.vectors # C29_CurrentEmbeddings
    /\ pv_segments # <<>>
    /\ pv_record.source_segment_ids # <<>>

-----------------------------------------------------------------------------
(* Claims on the two modes of run_batch_evaluation (SpecBatch) *)

\* the status the sequential loop gives a job
C25_SequentialStatus(id) ==
    IF id \in load_fails THEN FailedEntry.status ELSE RunEvaluationResult(id).status

\* C25: for every list of job ids and every pattern of load and evaluation
\* failures, the result of run_batch_evaluation has every input job id as
\* a key and no other key, and the status of each key is the one the
\* sequential loop gives it, with parallel=True as with parallel=False.
C25_ParallelAsSequential ==
    b_pc = "done" =>
        /\ DOMAIN results = {job_ids[k] : k \in DOMAIN job_ids}
        /\ \A id \in DOMAIN results : results[id].status = C25_SequentialStatus(id)

-----------------------------------------------------------------------------
(* Claims on run_evaluation and the evaluation routes (SpecEval) *)

\* the last run had no judge model or its LLM evaluation raised
C24_LlmMissing == ~ev_last.outcome.available \/ ev_last.outcome.llm_raises

C26_DiskStatusCompleted ==
    (ev_last.ran /\ ev_last.returned.status = "completed") =>
        /\ ev_last.disk.status = "completed"
        /\ (ev_memory = NoRecord /\ ev_disk = ev_last.disk /\ ev_exists)
              => ev_disk.status = "completed"

\* C23: once every background task has finished, the stored
\* aggregated_evaluation of the job has been computed from every human
\* review submitted: when a review and an evaluation record with an
\* aggregated evaluation exist, its sources hold 'human' and its human
\* evaluation covers every reviewed component.
C23_AggregatedFromEveryReview ==
    (/\ ev_tasks = <<>>
     /\ ev_reviews # {}
     /\ ev_memory # NoRecord
     /\ ev_memory.aggregated)
        => /\ \E k \in DOMAIN ev_memory.sources : ev_memory.sources[k] = "human"
           /\ ev_memory.human_evaluation
           /\ ev_memory.reviewed = ev_reviews

-----------------------------------------------------------------------------
(* Claims on the job routes (SpecJob) *)

\* C22: in every state in which the status endpoint reports the job as
\* 'completed', from memory or from status.json, the results endpoint
\* returns the results of the job and no not-found error, also after the
\* saving of the results has failed and after memory has been lost.
C22_CompletedHasResults ==
    JobStatusAnswer = "completed" => ResultsAnswer = "results"

\* C27 (its last part): once the status of the job is 'completed' or
\* 'failed', no later status update of process_job changes it.
C27_TerminalStatusStays ==
    \A k \in 1..(Len(jb_updates) - 1) :
        jb_updates[k].status \in {"completed", "failed"}
            => jb_updates[k + 1].status = jb_updates[k].status

\* C27 (its first part): the first status of a job is 'processing', and a
\* started process_job sets the status 'completed' or 'failed' unless the
\* server is stopped first (SpecJobFair).
C27_EventuallyTerminal ==
    /\ [](jb_updates # <<>> => jb_updates[1].status = "processing")
    /\ (jb_pc = "start") ~>
          (\/ jb_pc = "stopped"
           \/ /\ jb_updates # <<>>
              /\ jb_updates[Len(jb_updates)].status \in {"completed", "failed"})

\* C27 where every call of storage.save_job_status has returned: a terminal
\* status stays
C27_TerminalStaysWhenPersisted == jb_persist => C27_TerminalStatusStays

\* C30: from one status update of process_job to the next the progress
\* never decreases, except in the update that sets the status 'failed',
\* which sets it to 0.
C30_ProgressNeverDecreases ==
    \A k \in 1..(Len(jb_updates) - 1) :
        jb_updates[k + 1].progress < jb_updates[k].progress
            => /\ jb_updates[k + 1].status = "failed"
               /\ jb_updates[k + 1].progress = 0


-----------------------------------------------------------------------------
(* Claims about the failures of the collaborators, checked under SpecCore *)

\* C21: whatever the generation collaborator or the embedding model raises,
\* extract_structured_data, the validate_* calls, the track_* calls and
\* _calculate_semantic_confidence return a value: no call ends with an
\* exception, every item that was given is validated, a tracked item carries
\* a provenance record, and every calibration call has a confidence
C21_NoFailureEscapes ==
    /\ ex_pc \in {"idle", "ready", "done"}
    /\ val_pc \in {"idle", "ready", "done"}
    /\ val_pc = "done" => DOMAIN val_out = DOMAIN val_items
    /\ pv_pc \in {"idle", "ready", "tracked"}
    /\ pv_pc = "tracked" =>
          /\ pv_record # Raised
          /\ "provenance" \in DOMAIN pv_out
          /\ pv_out.provenance.source_segment_ids = pv_record.source_segment_ids
    /\ \A k \in DOMAIN cal_calls : cal_calls[k].confidence \in 0..95

\* a track_* call has returned the keyword record although embeddings are
\* stored and the model is set: encode raised on the extracted text
C21_Witness ==
    /\ pv_pc = "tracked"
    /\ pv_model
    /\ pv_embeddings.present
    /\ \E t \in {"decision", "action", "risk"} :
          /\ t \in DOMAIN pv_out
          /\ pv_record \notin FindProvenance(pv_out[t], "llm", TRUE)
          /\ pv_record \in FindProvenance(pv_out[t], "llm", FALSE)

\* the other failures of the claim have happened too: the generation call
\* raised in a finished extraction, encode raised in a finished validation,
\* at set_source_segments before a tracked item, and in a calibration call
C21_GenerationRaised == ex_pc = "done" /\ has_structured /\ llm_reply["decisions"] = "exception"

C21_ValidatorEncodeRaised == val_pc = "done" /\ val_embed = "raises"

C21_SetSegmentsEncodeRaised == pv_pc = "tracked" /\ pv_model /\ ~pv_embeddings.present

C21_CalibratorEncodeRaised == \E k \in DOMAIN cal_calls : cal_calls[k].raises
=============================================================================
